---- MODULE Spec2Model ----
(***************************************************************************)
(* A model of pymqi/mq_pcf.py: the PCF structure codec (MQOptsWithEncoding *)
(* and the CFH/CFIN/CFST/CFIL/CFSL/CFBS structures), PCFCommand.pack_bag,  *)
(* PCFCommand.unpack_bag, PCFCommandResponse and the send/receive loop of  *)
(* PCFCommand.execute_command.                                             *)
(*                                                                         *)
(* Conventions.  A byte is a number in 0..255 and a buffer is a sequence   *)
(* of bytes.  Python values are tagged records (PyInt, PyBytes, PyStr,     *)
(* ...); str and bytes are distinct types, as lines 830, 849 and 1102 of   *)
(* the source assume (Python 3).  The host is little-endian, so the struct *)
(* format "i" without a prefix writes the least significant byte first and *)
(* ">i" the most significant byte first.  A Python call that can raise     *)
(* returns a record [ok, err, ...]; err names the exception class.         *)
(***************************************************************************)
EXTENDS Integers, Sequences, FiniteSets, TLC

----------------------------------------------------------------------------
(* Constants of pymqi.CMQC / pymqi.CMQCFC used by the source.              *)

MQCFT_COMMAND == 1
MQCFT_RESPONSE == 2
MQCFT_INTEGER == 3
MQCFT_STRING == 4
MQCFT_INTEGER_LIST == 5
MQCFT_STRING_LIST == 6
MQCFT_BYTE_STRING == 9
MQCFT_INTEGER_FILTER == 13
MQCFT_COMMAND_XR == 16
MQCFT_XR_MSG == 17
MQCFT_XR_ITEM == 18
MQCFT_XR_SUMMARY == 19
MQCFT_GROUP == 20

MQCFH_STRUC_LENGTH == 36
MQCFH_CURRENT_VERSION == 3
MQCFH_VERSION_3 == 3
MQCFIN_STRUC_LENGTH == 16
MQCFST_STRUC_LENGTH_FIXED == 20
MQCFIL_STRUC_LENGTH_FIXED == 16
MQCFSL_STRUC_LENGTH_FIXED == 24
MQCFBS_STRUC_LENGTH_FIXED == 16
MQCFGR_STRUC_LENGTH == 16
MQCFBF_STRUC_LENGTH_FIXED == 20

MQCFC_LAST == 1
MQCFC_NOT_LAST == 0
MQCC_OK == 0
MQRC_NONE == 0
MQCMD_NONE == 0
MQCMD_INQUIRE_Q_MGR == 2
MQCMD_INQUIRE_Q == 13
MQCCSI_DEFAULT == 0
MQENC_NATIVE == 546
MQRC_NO_MSG_AVAILABLE == 2033
MQRC_CONNECTION_BROKEN == 2009

\* MQOptsWithEncoding.big_endian_encodings / PCFCommand.big_endian_encodings
big_endian_encodings == {1, 16, 256, 768, 17, 257, 272, 273, 785}

----------------------------------------------------------------------------
(* Python values and results.                                              *)

PyInt(x)   == [k |-> "int",   i |-> x, s |-> <<>>]
PyBytes(b) == [k |-> "bytes", i |-> 0, s |-> b]
PyStr(c)   == [k |-> "str",   i |-> 0, s |-> c]
PyFloat    == [k |-> "float", i |-> 0, s |-> <<>>]
PyNone     == [k |-> "none",  i |-> 0, s |-> <<>>]
\* The 1-tuple (x,).
PyTuple1(x) == [k |-> "tuple", i |-> x, s |-> <<>>]
\* A Python list of values: s holds the element records.
PyList(l)  == [k |-> "list",  i |-> 0, s |-> l]

Ok(v)   == [ok |-> TRUE,  err |-> "",  val |-> v]
Err(e)  == [ok |-> FALSE, err |-> e,   val |-> <<>>]

\* A slice index of Python on a sequence of n items: a negative index counts
\* from the end, and the result is clipped to 0..n.
PyIdx(i, n) ==
    IF i < 0 THEN (IF n + i < 0 THEN 0 ELSE n + i)
    ELSE (IF i > n THEN n ELSE i)

\* buff[a:b] of Python.
Slice(buff, a, b) ==
    LET lo == PyIdx(a, Len(buff))
        hi == PyIdx(b, Len(buff))
    IN  IF lo >= hi THEN <<>> ELSE SubSeq(buff, lo + 1, hi)

\* buff[a:] of Python.
SliceFrom(buff, a) == Slice(buff, a, Len(buff))

RECURSIVE Repeat(_, _)
Repeat(x, n) == IF n <= 0 THEN <<>> ELSE <<x>> \o Repeat(x, n - 1)

----------------------------------------------------------------------------
(* struct.pack / struct.unpack of one MQLONG ("i"), 32 bits two's          *)
(* complement.  big selects ">i".                                          *)

LongBytesLE(v) ==
    LET u == IF v >= 0 THEN v ELSE -(v + 1)
        b0 == u % 256
        b1 == (u \div 256) % 256
        b2 == (u \div 65536) % 256
        b3 == (u \div 16777216) % 256
    IN  IF v >= 0 THEN <<b0, b1, b2, b3>>
        ELSE <<255 - b0, 255 - b1, 255 - b2, 255 - b3>>

Reverse4(b) == <<b[4], b[3], b[2], b[1]>>

PackLong(v, big) == IF big THEN Reverse4(LongBytesLE(v)) ELSE LongBytesLE(v)

\* The value of four bytes given least significant first.
LongFromLE(b) ==
    IF b[4] < 128
    THEN b[1] + 256 * b[2] + 65536 * b[3] + 16777216 * b[4]
    ELSE -((255 - b[1]) + 256 * (255 - b[2]) + 65536 * (255 - b[3])
           + 16777216 * (255 - b[4])) - 1

UnpackLong(b, big) == IF big THEN LongFromLE(Reverse4(b)) ELSE LongFromLE(b)

----------------------------------------------------------------------------
(* pymqi.MQOpts objects.  An object is its member list (name, current      *)
(* value, struct format) plus the number of ">" characters that have been  *)
(* prepended to the format of member 0 (pre).  A member format is "i"      *)
(* (c = "i") or "<w>s" (c = "s", width w).  integer_list and string_list   *)
(* are the Python lists kept by CFIL and CFSL.                             *)

Mem(name, x)       == [n |-> name, v |-> PyInt(x), c |-> "i", w |-> 0]
MemS(name, val, w) == [n |-> name, v |-> val, c |-> "s", w |-> w]

NewOpts(members) ==
    [pre |-> 0, flds |-> members, integer_list |-> <<>>, string_list |-> <<>>]

\* hasattr(self, name)
HasAttr(o, name) == \E j \in 1..Len(o.flds) : o.flds[j].n = name

\* self[name]; members of one name share one Python attribute.
Get(o, name) ==
    o.flds[CHOOSE j \in 1..Len(o.flds) : o.flds[j].n = name].v

\* self[name] = val
SetAttr(o, name, val) ==
    [o EXCEPT !.flds = [j \in 1..Len(o.flds) |->
        IF o.flds[j].n = name THEN [o.flds[j] EXCEPT !.v = val]
        ELSE o.flds[j]]]

\* saved_values = self.get(); MQOpts.__init__(self, tuple(opts));
\* self.set(**saved_values): the members become opts, every attribute the
\* object had keeps its value, a new attribute takes the default of the last
\* member of its name.
Reinit(o, opts) ==
    LET lastOf(name) ==
            CHOOSE j \in 1..Len(opts) :
                /\ opts[j].n = name
                /\ \A h \in (j + 1)..Len(opts) : opts[h].n # name
    IN  [o EXCEPT !.flds = [j \in 1..Len(opts) |->
            [opts[j] EXCEPT !.v =
                IF HasAttr(o, opts[j].n) THEN Get(o, opts[j].n)
                ELSE opts[lastOf(opts[j].n)].v]]]

\* struct.pack of one member.  An "s" member takes bytes only (pymqi
\* refuses str), padded with zero bytes or cut to its width.
PackMember(m, big) ==
    IF m.c = "i"
    THEN IF m.v.k = "int" THEN Ok(PackLong(m.v.i, big)) ELSE Err("struct.error")
    ELSE IF m.v.k = "bytes"
         THEN Ok(Slice(m.v.s, 0, m.w) \o Repeat(0, m.w - Len(m.v.s)))
         ELSE Err("TypeError")

\* Two steps that run one after the other: the exception of the first one
\* that raises, or the bytes of both.
Concat(one, rest) ==
    IF ~one.ok THEN one
    ELSE IF ~rest.ok THEN rest
    ELSE Ok(one.val \o rest.val)

RECURSIVE PackMembers(_, _, _)
PackMembers(flds, j, big) ==
    IF j > Len(flds) THEN Ok(<<>>)
    ELSE Concat(PackMember(flds[j], big), PackMembers(flds, j + 1, big))

\* pymqi.MQOpts.pack(self): struct.pack(format, *values).  A format that
\* starts with more than one ">" is a bad struct format.
MQOptsPack(o) ==
    IF o.pre > 1 THEN Err("struct.error")
    ELSE PackMembers(o.flds, 1, o.pre = 1)

\* The object after pack and what pack returns.
PackResult(o) == [obj |-> o, res |-> MQOptsPack(o)]

\* MQOptsWithEncoding.pack(self, encoding): the object after the call (obj)
\* and what the call returns (res).  encoding is a PyInt or PyNone.
Pack(o, encoding) ==
    PackResult(IF encoding.k = "int" /\ encoding.i \in big_endian_encodings
               THEN Reinit([o EXCEPT !.pre = o.pre + 1], o.flds)
               ELSE o)

----------------------------------------------------------------------------
(* The structure classes.                                                  *)

CFH ==
    NewOpts(<< Mem("Type", MQCFT_COMMAND),
               Mem("StrucLength", MQCFH_STRUC_LENGTH),
               Mem("Version", MQCFH_CURRENT_VERSION),
               Mem("Command", MQCMD_NONE),
               Mem("MsgSeqNumber", 1),
               Mem("Control", MQCFC_LAST),
               Mem("CompCode", MQCC_OK),
               Mem("Reason", MQRC_NONE),
               Mem("ParameterCount", 0) >>)

CFIN ==
    NewOpts(<< Mem("Type", MQCFT_INTEGER),
               Mem("StrucLength", MQCFIN_STRUC_LENGTH),
               Mem("Parameter", 0),
               Mem("Value", 0) >>)

CFST ==
    NewOpts(<< Mem("Type", MQCFT_STRING),
               Mem("StrucLength", MQCFST_STRUC_LENGTH_FIXED),
               Mem("Parameter", 0),
               Mem("CodedCharSetId", MQCCSI_DEFAULT),
               Mem("StringLength", 0) >>)

CFIL ==
    NewOpts(<< Mem("Type", MQCFT_INTEGER_LIST),
               Mem("StrucLength", MQCFIL_STRUC_LENGTH_FIXED),
               Mem("Parameter", 0),
               Mem("Count", 0) >>)

CFSL ==
    NewOpts(<< Mem("Type", MQCFT_STRING_LIST),
               Mem("StrucLength", MQCFSL_STRUC_LENGTH_FIXED),
               Mem("Parameter", 0),
               Mem("CodedCharSetId", MQCCSI_DEFAULT),
               Mem("Count", 0),
               Mem("StringLength", 0) >>)

CFBS ==
    NewOpts(<< Mem("Type", MQCFT_BYTE_STRING),
               Mem("StrucLength", MQCFBS_STRUC_LENGTH_FIXED),
               Mem("Parameter", 0),
               Mem("StringLength", 0) >>)

CFGR ==
    NewOpts(<< Mem("Type", MQCFT_GROUP),
               Mem("StrucLength", MQCFGR_STRUC_LENGTH),
               Mem("Parameter", 0),
               Mem("ParameterCount", 0) >>)

CFIF ==
    NewOpts(<< Mem("Type", MQCFT_INTEGER_FILTER),
               Mem("StrucLength", MQCFBF_STRUC_LENGTH_FIXED),
               Mem("Parameter", 0),
               Mem("Operator", 0),
               Mem("FilterValue", 0) >>)

\* The end of set_string: o1 is the object with its new StringLength.
SetStringMember(o1, string_value) ==
    Reinit(IF Get(o1, "StrucLength").i \in {MQCFST_STRUC_LENGTH_FIXED, 0}
           THEN SetAttr(o1, "StrucLength",
                    PyInt(MQCFST_STRUC_LENGTH_FIXED + Len(string_value.s)))
           ELSE o1,
           o1.flds \o <<MemS("String", string_value, Len(string_value.s))>>)

\* CFST.set_string(string_value): string_value is a PyStr or a PyBytes.
set_string(o, string_value) ==
    SetStringMember(SetAttr(o, "StringLength", PyInt(Len(string_value.s))),
                    string_value)

RECURSIVE PackLongs(_, _)
\* struct.pack("i" * n, *integer_list), or ">" + "i" * n when big; an
\* element that is not an integer is a struct.error.
PackLongs(vals, big) ==
    IF vals = <<>> THEN Ok(<<>>)
    ELSE LET rest == PackLongs(Tail(vals), big)
         IN  IF Head(vals).k # "int" THEN Err("struct.error")
             ELSE IF ~rest.ok THEN rest
             ELSE Ok(PackLong(Head(vals).i, big) \o rest.val)

\* The end of add_integer: o1 is the object with its new integer_list,
\* Count and StrucLength, sv the packed integer_list.
AddIntegerMember(o1, sv) ==
    IF ~sv.ok THEN [obj |-> o1, res |-> sv]
    ELSE [obj |-> Reinit(IF HasAttr(o1, "IntegerList")
                         THEN SetAttr(o1, "IntegerList", PyBytes(sv.val))
                         ELSE o1,
                         (IF HasAttr(o1, "IntegerList")
                          THEN SubSeq(o1.flds, 1, Len(o1.flds) - 1)
                          ELSE o1.flds)
                         \o <<MemS("IntegerList", PyBytes(sv.val), Len(sv.val))>>),
          res |-> Ok(<<>>)]

\* The start of add_integer: integer_list becomes il and Count cnt.
AddIntegerCount(o, il, cnt) ==
    SetAttr(SetAttr([o EXCEPT !.integer_list = il], "Count", PyInt(cnt)),
            "StrucLength", PyInt(MQCFIL_STRUC_LENGTH_FIXED + 4 * cnt))

\* CFIL.add_integer(value, encoding): [obj, res]; res.ok is FALSE when the
\* call raises.
add_integer(o, value, encoding) ==
    AddIntegerMember(
        AddIntegerCount(o, Append(o.integer_list, value), Get(o, "Count").i + 1),
        PackLongs(Append(o.integer_list, value),
                  /\ encoding.k = "int"
                  /\ encoding.i \in big_endian_encodings
                  /\ o.pre = 0))

\* The end of add_string: sv is the string_value built from string_list.
AddStringMember(o1, sv) ==
    [obj |-> Reinit(IF HasAttr(o1, "StringList")
                    THEN SetAttr(o1, "StringList", sv) ELSE o1,
                    (IF HasAttr(o1, "StringList")
                     THEN SubSeq(o1.flds, 1, Len(o1.flds) - 1)
                     ELSE o1.flds)
                    \o <<MemS("StringList", sv, Len(sv.s))>>),
     res |-> Ok(<<>>)]

\* The loop of add_string over string_list.  It raises TypeError for an
\* element shorter than StringLength (line 540 subtracts an int from a
\* string), for a longer one (line 542 subtracts 1 from the string
\* "StringLength") and for a bytes element (line 544 adds it to the str
\* string_value); elements are str or bytes.
AddStringList(o1, list, slen) ==
    IF \E j \in 1..Len(list) : Len(list[j].s) # slen \/ list[j].k # "str"
    THEN [obj |-> o1, res |-> Err("TypeError")]
    ELSE AddStringMember(o1,
             PyStr([j \in 1..(slen * Len(list)) |->
                       list[((j - 1) \div slen) + 1].s[((j - 1) % slen) + 1]]))

\* The start of add_string: string_list becomes list, StringLength slen and
\* Count cnt.
AddStringCount(o, list, slen, cnt) ==
    AddStringList(
        SetAttr(SetAttr(SetAttr([o EXCEPT !.string_list = list],
            "StringLength", PyInt(slen)),
            "Count", PyInt(cnt)),
            "StrucLength", PyInt(MQCFSL_STRUC_LENGTH_FIXED + slen * cnt)),
        list, slen)

\* CFSL.add_string(value): [obj, res].
add_string(o, value) ==
    AddStringCount(o, Append(o.string_list, value),
                   IF Get(o, "StringLength").i = 0 THEN Len(value.s)
                   ELSE Get(o, "StringLength").i,
                   Get(o, "Count").i + 1)

----------------------------------------------------------------------------
(* Text conversion: str.encode(name) and bytes.decode(name) of Python for  *)
(* the codec names the model uses.  Characters are code points.            *)

\* Code points of cp037 (EBCDIC) for the characters the model uses:
\* space, "*", "A", "B", "Q".
Cp037 == (32 :> 64) @@ (42 :> 92) @@ (65 :> 193) @@ (66 :> 194) @@ (81 :> 216)

\* The codec Python finds for a name: "037" is cp037, "437" is cp437,
\* "utf-8" is UTF-8; "000" and "819" name no codec (LookupError).
PyCodec(name) ==
    CASE name = "037"   -> "cp037"
      [] name = "437"   -> "cp437"
      [] name = "utf-8" -> "utf-8"
      [] OTHER          -> "unknown"

RECURSIVE EncodeChars(_, _)
\* The bytes of a sequence of code points; <<-1>> marks a character the
\* codec cannot encode.  UTF-8 writes a code point in 128..2047 as 2 bytes.
EncodeChars(codec, chars) ==
    IF chars = <<>> THEN <<>>
    ELSE LET c    == Head(chars)
             rest == EncodeChars(codec, Tail(chars))
             one  == CASE codec = "cp037" ->
                              IF c \in DOMAIN Cp037 THEN <<Cp037[c]>> ELSE <<-1>>
                        [] codec = "cp437" -> IF c < 128 THEN <<c>> ELSE <<-1>>
                        [] OTHER ->
                              IF c < 128 THEN <<c>>
                              ELSE <<192 + (c \div 64), 128 + (c % 64)>>
         IN  IF one = <<-1>> \/ rest = <<-1>> THEN <<-1>> ELSE one \o rest

\* "{:03d}".format(ccsid) for the code pages the model uses.
Format03d(ccsid) ==
    CASE ccsid = 0    -> "000"
      [] ccsid = 37   -> "037"
      [] ccsid = 437  -> "437"
      [] ccsid = 819  -> "819"
      [] OTHER        -> "other"

----------------------------------------------------------------------------
(* PCFCommand.  self is the record of the attributes __init__ sets;        *)
(* has_ccsid_str is FALSE when __init__ leaves self.ccsid_str unset.       *)
(* ccsid and encoding arguments are PyInt or PyNone, ccsid_str is a codec  *)
(* name or "" for None.                                                    *)

PCFCommandInit(ccsid, encoding, ccsid_str, convert, zos) ==
    IF ccsid.k = "none" /\ encoding.k = "none" /\ zos
    THEN [ccsid |-> 37, encoding |-> 785, convert |-> TRUE,
          ccsid_str |-> "", has_ccsid_str |-> FALSE, zos |-> zos]
    ELSE LET cc == IF ccsid.k = "none" \/ ccsid.i = 0
                   THEN (IF zos THEN 37 ELSE MQCCSI_DEFAULT)
                   ELSE ccsid.i
             en == IF encoding.k = "none" \/ encoding.i = 0
                   THEN (IF zos THEN 785 ELSE MQENC_NATIVE)
                   ELSE encoding.i
         IN  [ccsid |-> cc, encoding |-> en,
              convert |-> IF zos THEN TRUE ELSE convert,
              ccsid_str |-> IF ccsid_str = "" THEN Format03d(cc) ELSE ccsid_str,
              has_ccsid_str |-> TRUE, zos |-> zos]

\* An argument the caller leaves out, and the value the signature of
\* __init__ (line 736) gives it.
Omitted == [k |-> "omitted", i |-> 0, s |-> <<>>]
Default(a, d) == IF a.k = "omitted" THEN d ELSE a

\* PCFCommand(qmgr, ...) with the keyword arguments a; ccsid_str is "" and
\* convert and zos are FALSE when the caller leaves them out.
PCFCommand(a) ==
    PCFCommandInit(Default(a.ccsid, PyInt(MQCCSI_DEFAULT)),
                   Default(a.encoding, PyInt(MQENC_NATIVE)),
                   a.ccsid_str, a.convert, a.zos)

\* The constructor call that leaves every argument out.
NoArgs == [ccsid |-> Omitted, encoding |-> Omitted, ccsid_str |-> "",
           convert |-> FALSE, zos |-> FALSE]

\* value.encode(self.ccsid_str), as lines 837 and 858 call it.
EncodeValue(self, value) ==
    IF value.k # "str" \/ ~self.has_ccsid_str THEN Err("AttributeError")
    ELSE IF PyCodec(self.ccsid_str) = "unknown" THEN Err("LookupError")
    ELSE LET b == EncodeChars(PyCodec(self.ccsid_str), value.s)
         IN  IF b = <<-1>> THEN Err("UnicodeEncodeError") ELSE Ok(PyBytes(b))

----------------------------------------------------------------------------
(* PCFCommand.pack_bag.  A directive of parm_list is a record              *)
(*   form  "dict", "tuple", "opts" (a pymqi.MQOpts instance) or "other"    *)
(*   n     the number of items of the dict or of the tuple                 *)
(*   parm  the parameter id (first key of the dict, element 0 of the tuple)*)
(*   val   the value (first value of the dict, element 1 of the tuple)     *)
(*   obj   the structure instance of an "opts" directive                   *)

Directive(form, n, parm, val) ==
    [form |-> form, n |-> n, parm |-> parm, val |-> val, obj |-> CFIN]

OptsDirective(o) ==
    [form |-> "opts", n |-> 0, parm |-> 0, val |-> PyNone, obj |-> o]

RECURSIVE AddIntegers(_, _, _)
\* After one add_integer call returned r: the loop goes on unless it raised.
AddIntegersNext(r, vals, encoding) ==
    IF ~r.res.ok THEN r ELSE AddIntegers(r.obj, vals, encoding)

\* for p in parm_vals: cf_p.add_integer(p, encoding=self.encoding)
AddIntegers(o, vals, encoding) ==
    IF vals = <<>> THEN [obj |-> o, res |-> Ok(<<>>)]
    ELSE AddIntegersNext(add_integer(o, Head(vals), encoding), Tail(vals),
                         encoding)

RECURSIVE AddStrings(_, _, _, _)
\* After one add_string call returned r: the loop goes on unless it raised.
AddStringsNext(self, r, vals, conv) ==
    IF ~r.res.ok THEN r ELSE AddStrings(self, r.obj, vals, conv)

\* One add_string call with the value e the conversion gave.
AddStringsEncoded(self, o, e, vals, conv) ==
    IF ~e.ok THEN [obj |-> o, res |-> Err(e.err)]
    ELSE AddStringsNext(self, add_string(o, e.val), vals, conv)

\* for p in parm_vals: cf_p.add_string(p.encode(self.ccsid_str)) when conv,
\* cf_p.add_string(p) otherwise.
AddStrings(self, o, vals, conv) ==
    IF vals = <<>> THEN [obj |-> o, res |-> Ok(<<>>)]
    ELSE AddStringsEncoded(self, o,
             IF conv THEN EncodeValue(self, Head(vals)) ELSE Ok(Head(vals)),
             Tail(vals), conv)

IsText(v) == v.k = "str" \/ v.k = "bytes"

\* cf_p.pack(encoding=self.encoding) of the list structure r.obj, unless
\* building it raised.
PackBuilt(self, r) ==
    IF ~r.res.ok THEN r.res ELSE Pack(r.obj, PyInt(self.encoding)).res

\* cf_p.set_string(e) and cf_p.pack(encoding=self.encoding), unless the
\* conversion that gave e raised.
PackString(self, o, e) ==
    IF ~e.ok THEN Err(e.err)
    ELSE Pack(set_string(o, e.val), PyInt(self.encoding)).res

\* Lines 810-867: the bytes a dict directive adds to out_buf.
PackDictParm(self, d) ==
    IF d.n = 0 THEN Err("PYIFError")
    ELSE IF d.val.k = "list"
    THEN IF Len(d.val.s) > 0
         THEN IF d.val.s[1].k = "int"
              THEN PackBuilt(self,
                       AddIntegers(SetAttr(CFIL, "Parameter", PyInt(d.parm)),
                                   d.val.s, PyInt(self.encoding)))
              ELSE IF IsText(d.val.s[1])
              THEN PackBuilt(self,
                       AddStrings(self,
                           SetAttr(SetAttr(CFSL, "CodedCharSetId", PyInt(self.ccsid)),
                                   "Parameter", PyInt(d.parm)),
                           d.val.s, self.convert))
              ELSE Err("PYIFError")
         \* cf_p is still None at line 867
         ELSE Err("AttributeError")
    ELSE IF d.val.k = "int"
    THEN Pack(SetAttr(SetAttr(CFIN, "Parameter", PyInt(d.parm)), "Value", d.val),
              PyInt(self.encoding)).res
    ELSE IF IsText(d.val)
    THEN PackString(self,
             SetAttr(SetAttr(CFST, "CodedCharSetId", PyInt(self.ccsid)),
                     "Parameter", PyInt(d.parm)),
             IF self.convert THEN EncodeValue(self, d.val) ELSE Ok(d.val))
    ELSE Err("PYIFError")

\* Lines 870-911: the bytes a tuple directive adds to out_buf.
PackTupleParm(self, d) ==
    IF d.n = 0 THEN Err("PYIFError")
    \* parm_tpl[1] of a tuple of one element
    ELSE IF d.n = 1 THEN Err("IndexError")
    ELSE IF d.val.k = "list"
    THEN IF Len(d.val.s) > 0
         THEN IF d.val.s[1].k = "int"
              THEN PackBuilt(self,
                       AddIntegers(SetAttr(CFIL, "Parameter", PyInt(d.parm)),
                                   d.val.s, PyInt(self.encoding)))
              ELSE IF IsText(d.val.s[1])
              THEN PackBuilt(self,
                       AddStrings(self,
                           SetAttr(SetAttr(CFSL, "CodedCharSetId", PyInt(self.ccsid)),
                                   "Parameter", PyInt(d.parm)),
                           d.val.s, FALSE))
              ELSE Err("PYIFError")
         \* cf_p is still None at line 911
         ELSE Err("AttributeError")
    ELSE IF d.val.k = "int"
    THEN Pack(SetAttr(SetAttr(CFIN, "Parameter", PyInt(d.parm)), "Value", d.val),
              PyInt(self.encoding)).res
    ELSE IF IsText(d.val)
    THEN PackString(self,
             SetAttr(SetAttr(CFST, "CodedCharSetId", PyInt(self.ccsid)),
                     "Parameter", PyInt(d.parm)),
             Ok(d.val))
    ELSE Err("PYIFError")

\* One iteration of the loop of line 808: the bytes directive d adds.  A
\* pymqi.MQOpts instance passes the check of line 915 and adds nothing (the
\* append of line 918 is commented out).
PackParm(self, d) ==
    CASE d.form = "dict"  -> PackDictParm(self, d)
      [] d.form = "tuple" -> PackTupleParm(self, d)
      [] d.form = "opts"  -> Ok(<<>>)
      [] OTHER            -> Err("PYIFError")

RECURSIVE PackParms(_, _, _)
PackParms(self, parm_list, j) ==
    IF j > Len(parm_list) THEN Ok(<<>>)
    ELSE Concat(PackParm(self, parm_list[j]), PackParms(self, parm_list, j + 1))

\* The header pack_bag builds (lines 800-804).
PackBagHeader(command, parm_list) ==
    SetAttr(SetAttr(SetAttr(SetAttr(CFH,
        "Type", PyInt(MQCFT_COMMAND_XR)),
        "Command", PyInt(command)),
        "Version", PyInt(MQCFH_VERSION_3)),
        "ParameterCount", PyInt(Len(parm_list)))

\* PCFCommand.pack_bag(command, parm_list): Ok(out_buf) or the exception.
pack_bag(self, command, parm_list) ==
    Concat(Pack(PackBagHeader(command, parm_list), PyInt(self.encoding)).res,
           PackParms(self, parm_list, 1))

----------------------------------------------------------------------------
(* Decoding.                                                               *)

\* The bytes of a member list: 4 per "i" member, w per "s" member.
RECURSIVE FmtSize(_)
FmtSize(flds) ==
    IF flds = <<>> THEN 0
    ELSE (IF Head(flds).c = "i" THEN 4 ELSE Head(flds).w) + FmtSize(Tail(flds))

RECURSIVE UnpackMembers(_, _, _)
\* struct.unpack(format, buff): the members with the values read from buff.
UnpackMembers(flds, buff, big) ==
    IF flds = <<>> THEN <<>>
    ELSE LET m == Head(flds)
             w == IF m.c = "i" THEN 4 ELSE m.w
             v == IF m.c = "i" THEN PyInt(UnpackLong(Slice(buff, 0, 4), big))
                  ELSE PyBytes(Slice(buff, 0, w))
         IN  <<[m EXCEPT !.v = v]>> \o
             UnpackMembers(Tail(flds), SliceFrom(buff, w), big)

\* pymqi.MQOpts.unpack(self, buff): a buffer shorter than the structure is
\* filled up with zero bytes, a longer one is a struct.error, and so is a
\* format with more than one ">".
MQOptsUnpack(o, buff) ==
    LET size   == FmtSize(o.flds)
        padded == buff \o Repeat(0, size - Len(buff))
    IN  IF o.pre > 1 \/ Len(buff) > size
        THEN [obj |-> o, res |-> Err("struct.error")]
        ELSE [obj |-> [o EXCEPT !.flds = UnpackMembers(o.flds, padded, o.pre = 1)],
              res |-> Ok(<<>>)]

\* The ">" the unpack methods prepend to the format of member 0.
WithPrefix(o, encoding) ==
    IF encoding.k = "int" /\ encoding.i \in big_endian_encodings
    THEN [o EXCEPT !.pre = o.pre + 1] ELSE o

\* MQOptsWithEncoding.unpack(self, buff, encoding), used by CFH and CFIN.
Unpack(o, buff, encoding) == MQOptsUnpack(WithPrefix(o, encoding), buff)

\* The end of CFST.unpack and of CFSL.unpack: o2 is the object with its
\* StringLength settled, sv the text read from the buffer, name the text
\* attribute and fixed the length of the fixed part.
TextMember(o2, sv, name, fixed) ==
    [obj |-> Reinit(IF Get(o2, "StrucLength").i \in {fixed, 0}
                    THEN SetAttr(o2, "StrucLength", PyInt(fixed + Len(sv)))
                    ELSE o2,
                    o2.flds \o
                    <<MemS(name, PyBytes(sv), Get(o2, "StringLength").i)>>),
     res |-> Ok(<<>>)]

\* The text of CFST.unpack and CFSL.unpack: all that follows the fixed part
\* when StringLength (len0) is 0, StringLength bytes otherwise.
TextValue(o1, buff, len0, name, fixed) ==
    IF len0 = 0
    THEN TextMember(SetAttr(o1, "StringLength",
                            PyInt(Len(SliceFrom(buff, fixed)))),
                    SliceFrom(buff, fixed), name, fixed)
    ELSE TextMember(o1, Slice(buff, fixed, fixed + len0), name, fixed)

\* After MQOpts.unpack of the fixed part returned u.
TextUnpacked(u, buff, name, fixed) ==
    IF ~u.res.ok THEN u
    ELSE TextValue(u.obj, buff, Get(u.obj, "StringLength").i, name, fixed)

\* CFST.unpack(buff, encoding)
CFST_unpack(o, buff, encoding) ==
    TextUnpacked(MQOptsUnpack(WithPrefix(o, encoding),
                              Slice(buff, 0, MQCFST_STRUC_LENGTH_FIXED)),
                 buff, "String", MQCFST_STRUC_LENGTH_FIXED)

RECURSIVE UnpackIntegerList(_, _)
\* Lines 380-383: Count times struct.unpack("i", int_buf[:4]), in native
\* byte order; a short int_buf is a struct.error.  Each element appended to
\* integer_list is the 1-tuple struct.unpack returns.
UnpackIntegerList(int_buf, count) ==
    IF count <= 0 THEN Ok(<<>>)
    ELSE IF Len(int_buf) < 4 THEN Err("struct.error")
    ELSE LET rest == UnpackIntegerList(SliceFrom(int_buf, 4), count - 1)
         IN  IF ~rest.ok THEN rest
             ELSE Ok(<<PyTuple1(UnpackLong(Slice(int_buf, 0, 4), FALSE))>>
                     \o rest.val)

\* The end of CFIL.unpack: ints is what the loop of lines 380-383 read.
IntegerListMember(o2, sv, ints) ==
    IF ~ints.ok THEN [obj |-> o2, res |-> ints]
    ELSE [obj |-> Reinit([o2 EXCEPT !.integer_list = @ \o ints.val],
                         o2.flds \o <<MemS("IntegerList", PyBytes(sv), Len(sv))>>),
          res |-> Ok(<<>>)]

\* After MQOpts.unpack of the fixed part returned u; sv is the rest of the
\* buffer.  Lines 377-378 test and set StrucLength with the CFST constant.
IntegerListUnpacked(u, sv) ==
    IF ~u.res.ok THEN u
    ELSE IntegerListMember(
             IF Get(u.obj, "StrucLength").i \in {MQCFST_STRUC_LENGTH_FIXED, 0}
             THEN SetAttr(u.obj, "StrucLength",
                          PyInt(MQCFST_STRUC_LENGTH_FIXED + Len(sv)))
             ELSE u.obj,
             sv, UnpackIntegerList(sv, Get(u.obj, "Count").i))

\* CFIL.unpack(buff, encoding)
CFIL_unpack(o, buff, encoding) ==
    IntegerListUnpacked(MQOptsUnpack(WithPrefix(o, encoding),
                                     Slice(buff, 0, MQCFIL_STRUC_LENGTH_FIXED)),
                        SliceFrom(buff, MQCFIL_STRUC_LENGTH_FIXED))

\* CFSL.unpack(buff, encoding)
CFSL_unpack(o, buff, encoding) ==
    TextUnpacked(MQOptsUnpack(WithPrefix(o, encoding),
                              Slice(buff, 0, MQCFSL_STRUC_LENGTH_FIXED)),
                 buff, "StringList", MQCFSL_STRUC_LENGTH_FIXED)

\* The end of CFBS.unpack: o2 is the object with its StringLength settled,
\* sv the bytes read from the buffer.
ByteStringMember(o2, sv) ==
    [obj |-> Reinit(SetAttr(o2, "StrucLength",
                            PyInt(MQCFBS_STRUC_LENGTH_FIXED + Len(sv))),
                    o2.flds \o <<MemS("String", PyBytes(sv), Len(sv))>>),
     res |-> Ok(<<>>)]

\* After MQOpts.unpack of the fixed part returned u.
ByteStringUnpacked(u, buff) ==
    IF ~u.res.ok THEN u
    ELSE IF Get(u.obj, "StringLength").i = 0
    THEN ByteStringMember(
             SetAttr(u.obj, "StringLength",
                     PyInt(Len(SliceFrom(buff, MQCFBS_STRUC_LENGTH_FIXED)))),
             SliceFrom(buff, MQCFBS_STRUC_LENGTH_FIXED))
    ELSE ByteStringMember(u.obj,
             Slice(buff, MQCFBS_STRUC_LENGTH_FIXED,
                   MQCFBS_STRUC_LENGTH_FIXED + Get(u.obj, "StringLength").i))

\* CFBS.unpack(buff, encoding)
CFBS_unpack(o, buff, encoding) ==
    ByteStringUnpacked(MQOptsUnpack(WithPrefix(o, encoding),
                                    Slice(buff, 0, MQCFBS_STRUC_LENGTH_FIXED)),
                       buff)

RECURSIVE DecodeBytes(_, _)
\* bytes.decode(codec): the code points, or <<-1>> for bytes the codec
\* cannot decode.  cp037 and cp437 give one character per byte (a byte
\* outside the table of the model stands for the character 256 + byte);
\* UTF-8 reads a lead byte in 192..223 and its continuation byte as one
\* character.
DecodeBytes(codec, b) ==
    IF b = <<>> THEN <<>>
    ELSE IF codec = "utf-8"
    THEN IF Head(b) < 128
         THEN LET rest == DecodeBytes(codec, Tail(b))
              IN  IF rest = <<-1>> THEN rest ELSE <<Head(b)>> \o rest
         ELSE IF /\ Head(b) \in 192..223
                 /\ Len(b) >= 2
                 /\ b[2] \in 128..191
         THEN LET rest == DecodeBytes(codec, SliceFrom(b, 2))
              IN  IF rest = <<-1>> THEN rest
                  ELSE <<(Head(b) - 192) * 64 + (b[2] - 128)>> \o rest
         ELSE <<-1>>
    ELSE LET c == IF codec = "cp037"
                  THEN (IF \E x \in DOMAIN Cp037 : Cp037[x] = Head(b)
                        THEN CHOOSE x \in DOMAIN Cp037 : Cp037[x] = Head(b)
                        ELSE 256 + Head(b))
                  ELSE (IF Head(b) < 128 THEN Head(b) ELSE 256 + Head(b))
         IN  <<c>> \o DecodeBytes(codec, Tail(b))

\* value.decode(self.ccsid_str), as lines 963 and 979 call it.
DecodeValue(self, value) ==
    IF value.k # "bytes" \/ ~self.has_ccsid_str THEN Err("AttributeError")
    ELSE IF PyCodec(self.ccsid_str) = "unknown" THEN Err("LookupError")
    ELSE LET c == DecodeBytes(PyCodec(self.ccsid_str), value.s)
         IN  IF c = <<-1>> THEN Err("UnicodeDecodeError") ELSE Ok(PyStr(c))

----------------------------------------------------------------------------
(* PCFCommand.unpack_bag.  The result is [ok, err, none, val]: none is     *)
(* TRUE when the method returns None, val is the list pcf_structs, and err *)
(* is the exception class, or "nontermination" when the loop of line 946   *)
(* can never end.                                                          *)

BagNone      == [ok |-> TRUE,  err |-> "", none |-> TRUE,  val |-> <<>>]
BagOk(l)     == [ok |-> TRUE,  err |-> "", none |-> FALSE, val |-> l]
BagErr(e)    == [ok |-> FALSE, err |-> e,  none |-> FALSE, val |-> <<>>]

\* A variant of lines 964-966 and 980-982 without the test of the length.
Converted_NoCheck(o, name, expect, d) ==
    IF ~d.ok THEN [obj |-> o, res |-> Err(d.err)]
    ELSE [obj |-> SetAttr(o, name, d.val), res |-> Ok(<<>>)]

\* The structure o with its text attribute name set to the decoded text d,
\* whose length must equal expect.
Converted(o, name, expect, d) ==
    IF ~d.ok THEN [obj |-> o, res |-> Err(d.err)]
    ELSE IF Len(d.val.s) # expect
    THEN [obj |-> SetAttr(o, name, d.val), res |-> Err("PYIFError")]
    ELSE [obj |-> SetAttr(o, name, d.val), res |-> Ok(<<>>)]

\* Lines 959-969 and 975-985: the structure after the conversion of its
\* text attribute name, whose length must equal expect.
ConvertText(self, o, name, expect) ==
    Converted(o, name, expect, DecodeValue(self, Get(o, name)))

\* Lines 959 and 975: the text of the unpacked structure u.obj is converted
\* when convert is set; expect is 1 for a string and Count for a list.
ConvertIf(self, u, convert, name) ==
    IF u.res.ok /\ convert
    THEN ConvertText(self, u.obj, name,
             IF name = "String" THEN Get(u.obj, "StringLength").i
             ELSE Get(u.obj, "StringLength").i * Get(u.obj, "Count").i)
    ELSE u

\* Lines 954-993: the structure decoded from the chunk new_buff[:struc_len]
\* whose type tag is parm_type; enc is self.encoding.
UnpackParm(self, parm_type, chunk, convert) ==
    CASE parm_type = MQCFT_INTEGER ->
            Unpack(CFIN, chunk, PyInt(self.encoding))
      [] parm_type = MQCFT_STRING ->
            ConvertIf(self, CFST_unpack(CFST, chunk, PyInt(self.encoding)),
                      convert, "String")
      [] parm_type = MQCFT_INTEGER_LIST ->
            CFIL_unpack(CFIL, chunk, PyInt(self.encoding))
      [] parm_type = MQCFT_STRING_LIST ->
            ConvertIf(self, CFSL_unpack(CFSL, chunk, PyInt(self.encoding)),
                      convert, "StringList")
      [] parm_type = MQCFT_BYTE_STRING ->
            CFBS_unpack(CFBS, chunk, PyInt(self.encoding))
      [] OTHER -> [obj |-> CFIN, res |-> Err("PYIFError")]

RECURSIVE ParseLoop(_, _, _, _)
\* The end of one iteration: u is the structure read, next_buff the buffer
\* after it.  The next new_buff is a suffix of new_buff: when it is new_buff
\* itself the iteration repeats for ever.
ParseNext(self, new_buff, convert, pcf_structs, u, next_buff) ==
    IF ~u.res.ok THEN BagErr(u.res.err)
    ELSE IF Len(next_buff) = 0 THEN BagOk(Append(pcf_structs, u.obj))
    ELSE IF Len(next_buff) = Len(new_buff) THEN BagErr("nontermination")
    ELSE ParseLoop(self, next_buff, convert, Append(pcf_structs, u.obj))

\* One iteration with the type tag and the length peeked at lines 947-952.
ParseStruct(self, new_buff, convert, pcf_structs, parm_type, struc_len) ==
    ParseNext(self, new_buff, convert, pcf_structs,
              UnpackParm(self, parm_type, Slice(new_buff, 0, struc_len), convert),
              SliceFrom(new_buff, struc_len))

\* The loop of lines 946-998 from the state (new_buff, pcf_structs).
ParseLoop(self, new_buff, convert, pcf_structs) ==
    IF Len(new_buff) < 8 THEN BagErr("struct.error")
    ELSE ParseStruct(self, new_buff, convert, pcf_structs,
             UnpackLong(Slice(new_buff, 0, 4),
                        self.encoding \in big_endian_encodings),
             UnpackLong(Slice(new_buff, 4, 8),
                        self.encoding \in big_endian_encodings))

\* After the header h was unpacked; new_buff is the rest of the buffer.
UnpackBody(self, h, new_buff, convert) ==
    IF ~h.res.ok THEN BagErr(h.res.err)
    ELSE IF Len(new_buff) = 0 THEN BagOk(<<h.obj>>)
    ELSE ParseLoop(self, new_buff, convert, <<h.obj>>)

\* PCFCommand.unpack_bag(buff, convert); buff is a bytes object.
unpack_bag(self, buff, convert) ==
    IF Len(buff) = 0 THEN BagNone
    ELSE UnpackBody(self,
             Unpack(CFH, Slice(buff, 0, MQCFH_STRUC_LENGTH), PyInt(self.encoding)),
             SliceFrom(buff, MQCFH_STRUC_LENGTH), convert)

----------------------------------------------------------------------------
(* PCFCommandResponse.  A dict is a function from parameter ids to values; *)
(* the empty dict is <<>>.  _header is a sequence of at most one           *)
(* structure, empty for None.                                              *)

HeaderTypes == {MQCFT_RESPONSE, MQCFT_XR_ITEM, MQCFT_XR_MSG, MQCFT_XR_SUMMARY}

\* A variant of lines 611-620 that keeps the first value of a key.
DictSet_KeepFirst(d, key, val) ==
    [x \in (DOMAIN d) \cup {key} |-> IF x \in DOMAIN d THEN d[x] ELSE val]

\* pcf_dict[key] = val
DictSet(d, key, val) ==
    [x \in (DOMAIN d) \cup {key} |-> IF x = key THEN val ELSE d[x]]

\* pcf_st[name] as a dict value: reading an attribute the structure does not
\* have raises AttributeError.
HasItems(pcf_st, names) == \A x \in names : HasAttr(pcf_st, x)

\* The attribute that holds the value of a structure of type parm_type, ""
\* for a type the constructor does not know.
ValueAttr(parm_type) ==
    CASE parm_type = MQCFT_INTEGER      -> "Value"
      [] parm_type = MQCFT_STRING       -> "String"
      [] parm_type = MQCFT_INTEGER_LIST -> "IntegerList"
      [] parm_type = MQCFT_STRING_LIST  -> "StringList"
      [] parm_type = MQCFT_BYTE_STRING  -> "String"
      [] OTHER                          -> ""

RECURSIVE ClassifyBag(_, _, _, _)
\* A variant of lines 603-623 without the else branch of lines 621-623: a
\* structure of an unknown type is passed over.
ClassifyStruct_SkipUnknown(pcf_s, j, pcf_dict, headers, pcf_st, parm_type, name) ==
    IF parm_type \in HeaderTypes
    THEN IF parm_type = MQCFT_XR_SUMMARY
         THEN [ok |-> TRUE, err |-> "", dict |-> pcf_dict,
               headers |-> Append(headers, pcf_st)]
         ELSE ClassifyBag(pcf_s, j + 1, pcf_dict, Append(headers, pcf_st))
    ELSE IF name = ""
    THEN ClassifyBag(pcf_s, j + 1, pcf_dict, headers)
    ELSE IF ~HasItems(pcf_st, {"Parameter", name})
    THEN [ok |-> FALSE, err |-> "AttributeError", dict |-> pcf_dict,
          headers |-> headers]
    ELSE ClassifyBag(pcf_s, j + 1,
             DictSet(pcf_dict, Get(pcf_st, "Parameter").i, Get(pcf_st, name)),
             headers)

\* One iteration of the loop of lines 603-623 for structure pcf_st of type
\* parm_type whose value attribute is name.
ClassifyStruct(pcf_s, j, pcf_dict, headers, pcf_st, parm_type, name) ==
    IF parm_type \in HeaderTypes
    THEN IF parm_type = MQCFT_XR_SUMMARY
         THEN [ok |-> TRUE, err |-> "", dict |-> pcf_dict,
               headers |-> Append(headers, pcf_st)]
         ELSE ClassifyBag(pcf_s, j + 1, pcf_dict, Append(headers, pcf_st))
    ELSE IF name = ""
    THEN [ok |-> FALSE, err |-> "PYIFError", dict |-> pcf_dict,
          headers |-> headers]
    ELSE IF ~HasItems(pcf_st, {"Parameter", name})
    THEN [ok |-> FALSE, err |-> "AttributeError", dict |-> pcf_dict,
          headers |-> headers]
    ELSE ClassifyBag(pcf_s, j + 1,
             DictSet(pcf_dict, Get(pcf_st, "Parameter").i, Get(pcf_st, name)),
             headers)

\* The loop of lines 603-623 over the structures of one bag from index j:
\* [ok, err, dict, headers].
ClassifyBag(pcf_s, j, pcf_dict, headers) ==
    IF j > Len(pcf_s)
    THEN [ok |-> TRUE, err |-> "", dict |-> pcf_dict, headers |-> headers]
    ELSE ClassifyStruct(pcf_s, j, pcf_dict, headers, pcf_s[j],
                        Get(pcf_s[j], "Type").i,
                        ValueAttr(Get(pcf_s[j], "Type").i))

RECURSIVE ClassifyBags(_, _, _, _)
\* A variant of lines 624-625 that appends the dict of every bag.
ClassifiedBag_Always(struct_list, b, parms, r) ==
    IF ~r.ok THEN Err(r.err)
    ELSE ClassifyBags(struct_list, b + 1, r.headers, Append(parms, r.dict))

\* After the loop over one bag returned r (lines 624-625).
ClassifiedBag(struct_list, b, parms, r) ==
    IF ~r.ok THEN Err(r.err)
    ELSE ClassifyBags(struct_list, b + 1, r.headers,
             IF Cardinality(DOMAIN r.dict) > 0
             THEN Append(parms, r.dict) ELSE parms)

\* The loop of lines 601-625 over the bags from index b: Ok([headers, parms])
\* or the exception.
ClassifyBags(struct_list, b, headers, parms) ==
    IF b > Len(struct_list) THEN Ok([headers |-> headers, parms |-> parms])
    ELSE ClassifiedBag(struct_list, b, parms,
                       ClassifyBag(struct_list[b], 1, <<>>, headers))

\* A variant of lines 607-608 in which every header becomes _header.
Response_LastHeader(struct_list, r) ==
    IF ~r.ok THEN r
    ELSE Ok([struct_list |-> struct_list,
             headers |-> r.val.headers,
             header  |-> SliceFrom(r.val.headers, Len(r.val.headers) - 1),
             parms   |-> r.val.parms])

\* The object the constructor leaves when its loops returned r.
Response(struct_list, r) ==
    IF ~r.ok THEN r
    ELSE Ok([struct_list |-> struct_list,
             headers |-> r.val.headers,
             header  |-> Slice(r.val.headers, 0, 1),
             parms   |-> r.val.parms])

\* PCFCommandResponse(struct_list): Ok(the object) or the PYIFError raised.
PCFCommandResponse(struct_list) ==
    IF Len(struct_list) > 0
    THEN Response(struct_list, ClassifyBags(struct_list, 1, <<>>, <<>>))
    ELSE Err("PYIFError")

\* The properties reason_code and comp_code of the object r (lines 649-668):
\* None when there is no header.
reason_code(r) == IF r.header = <<>> THEN PyNone ELSE Get(r.header[1], "Reason")
comp_code(r)   == IF r.header = <<>> THEN PyNone ELSE Get(r.header[1], "CompCode")

----------------------------------------------------------------------------
(* PCFCommand.execute_command as a state machine.                          *)
(*                                                                         *)
(* Two invocations run against one queue manager.  The queue manager, the  *)
(* command server and other applications are the environment: the command  *)
(* server answers a request with messages on the request's ReplyToQ whose  *)
(* CorrelId is the request's MsgId, and another application may put a      *)
(* message with any other CorrelId on a reply queue.  A message in flight  *)
(* is [correl, ccsid, kind]; its body is ReplyBody(kind, encoding).        *)

\* Bounds of the model.
MaxReplies == 2
MaxStray == 1

Invocations == {"a", "b"}

\* The code page of a reply that differs from every configured ccsid.
OtherCcsid == 1208

\* Parameter ids used in requests and replies (MQIA_Q_TYPE, MQCA_Q_NAME).
MQIA_Q_TYPE == 20
MQCA_Q_NAME == 2016

\* The expiry execute_command gives to the request (line 1018).
Expiry == 300

\* The PCFCommand objects the invocations run on: a native, unconverted
\* one and a z/OS one that converts text.
CmdArgs ==
    { [ccsid |-> PyInt(437), encoding |-> PyInt(MQENC_NATIVE), convert |-> FALSE,
       zos |-> FALSE],
      [ccsid |-> PyInt(37), encoding |-> PyInt(785), convert |-> FALSE,
       zos |-> TRUE] }

\* The parm_list arguments of the invocations; the second one holds a float
\* and makes pack_bag raise.
ParmLists ==
    { << Directive("tuple", 2, MQIA_Q_TYPE, PyInt(1)) >>,
      << Directive("dict", 1, MQIA_Q_TYPE, PyFloat) >> }

\* The kinds of reply messages the environment sends, and whether the
\* message comes in the code page of the PCFCommand object.
ReplyKinds ==
    { [kind |-> "more", same |-> TRUE], [kind |-> "moreText", same |-> FALSE],
      [kind |-> "last", same |-> TRUE], [kind |-> "empty", same |-> TRUE],
      [kind |-> "command", same |-> TRUE], [kind |-> "group", same |-> TRUE] }

\* A reply header of the given type and control flag with n parameters.
ReplyHeader(type, control, n) ==
    SetAttr(SetAttr(SetAttr(CFH, "Type", PyInt(type)),
                    "Control", PyInt(control)),
            "ParameterCount", PyInt(n))

\* The bytes of b under the byte order of encoding.
Bytes(o, encoding) == Pack(o, PyInt(encoding)).res.val

\* The body of a reply of each kind, in the byte order of encoding.
ReplyBody(kind, encoding) ==
    CASE kind = "more" ->
            Bytes(ReplyHeader(MQCFT_RESPONSE, MQCFC_NOT_LAST, 1), encoding)
            \o Bytes(SetAttr(SetAttr(CFIN, "Parameter", PyInt(MQIA_Q_TYPE)),
                             "Value", PyInt(1)), encoding)
      [] kind = "moreText" ->
            Bytes(ReplyHeader(MQCFT_RESPONSE, MQCFC_NOT_LAST, 1), encoding)
            \o Bytes(set_string(SetAttr(CFST, "Parameter", PyInt(MQCA_Q_NAME)),
                                PyBytes(<<193, 92>>)), encoding)
      [] kind = "last" ->
            Bytes(ReplyHeader(MQCFT_RESPONSE, MQCFC_LAST, 1), encoding)
            \o Bytes(set_string(SetAttr(CFST, "Parameter", PyInt(MQCA_Q_NAME)),
                                PyBytes(<<193, 92>>)), encoding)
      [] kind = "command" ->
            Bytes(ReplyHeader(MQCFT_COMMAND, MQCFC_NOT_LAST, 0), encoding)
      \* an Integer structure and one of a type unpack_bag has no branch for
      [] kind = "group" ->
            Bytes(ReplyHeader(MQCFT_RESPONSE, MQCFC_NOT_LAST, 2), encoding)
            \o Bytes(SetAttr(SetAttr(CFIN, "Parameter", PyInt(MQIA_Q_TYPE)),
                             "Value", PyInt(1)), encoding)
            \o Bytes(SetAttr(CFGR, "Parameter", PyInt(MQCA_Q_NAME)), encoding)
      \* an Integer structure whose StrucLength is 0
      [] kind = "nolen" ->
            Bytes(ReplyHeader(MQCFT_RESPONSE, MQCFC_LAST, 1), encoding)
            \o Bytes(SetAttr(SetAttr(SetAttr(CFIN, "Parameter", PyInt(MQIA_Q_TYPE)),
                                     "StrucLength", PyInt(0)),
                             "Value", PyInt(1)), encoding)
      [] OTHER -> <<>>

\* The name the queue manager gives to the dynamic queue it creates from
\* the prefix PCF.REPLY.* (line 1020) for each invocation, and the MsgId it
\* gives to the request of each invocation: both are unique.
DynQueueName == [i \in Invocations |-> IF i = "a" THEN "PCF.REPLY.A"
                                                   ELSE "PCF.REPLY.B"]
MsgIdOf == [i \in Invocations |-> IF i = "a" THEN 1 ELSE 2]

\* The queues the caller has opened before it runs any command.
CallerQueues == {"CALLER.Q"}

\* The reason codes of a failing MQI call other than "no message available".
FailureReasons == {MQRC_CONNECTION_BROKEN}

VARIABLES
    cmd,          \* the PCFCommand object (self)
    args,         \* the arguments its constructor was called with
    inv,          \* the frame of each execute_command invocation
    cmdq,         \* the requests put on the command queue
    replyq,       \* the messages on each dynamic queue, in order
    openDests,    \* the queues that are open
    callerDests,  \* the queues the caller opened
    replies,      \* the number of replies the command server has sent
    strays,       \* the number of messages other applications have put
    pk_in,        \* the command and parm_list of a pack_bag call
    pk_out,       \* what that call returned
    st,           \* a structure object and the calls made on it
    rb            \* reply buffers built from structures, and their decoding

\* The variables of the codec calls made outside execute_command.
packVars == <<args, pk_in, pk_out, st, rb>>

\* The variables of the queue manager and of the invocations.
execVars == <<inv, cmdq, replyq, openDests, callerDests, replies, strays>>

vars == <<cmd, args, inv, cmdq, replyq, openDests, callerDests, replies,
          strays, pk_in, pk_out, st, rb>>

\* No pack_bag call has been made.
NotPacked == [done |-> FALSE, res |-> Ok(<<>>)]

\* No structure has been constructed.  cls is the class of the object obj,
\* enc the encoding its methods are called with, calls the values given to
\* set_string, add_integer or add_string so far and res what the last of
\* these calls returned; once tripped is TRUE, wire is what pack returned
\* and back the object a new instance of the class became in unpack; once
\* again.done is TRUE, again.res is what a second pack of obj returned.
NoStruct ==
    [cls |-> "", enc |-> MQENC_NATIVE, obj |-> CFH, calls |-> <<>>,
     res |-> Ok(<<>>), tripped |-> FALSE, wire |-> Ok(<<>>),
     back |-> [obj |-> CFH, res |-> Ok(<<>>)],
     again |-> [done |-> FALSE, res |-> Ok(<<>>)]]

\* No reply buffer has been built.  chunks names the parameter structures
\* of the buffer under construction and structs counts those of all
\* buffers; buf is the last buffer given to
\* unpack_bag (its header type, its structures and the convert argument)
\* and out what unpack_bag made of it; src is the buffers unpacked so far
\* and batch the list of the bags unpack_bag returned for them; resp is
\* what PCFCommandResponse made of batch once responded is TRUE.
NoBag ==
    [chunks |-> <<>>, structs |-> 0,
     buf |-> [head |-> MQCFT_RESPONSE, chunks |-> <<>>, conv |-> FALSE],
     out |-> [ok |-> TRUE, err |-> "", none |-> TRUE, val |-> <<>>],
     batch |-> <<>>, src |-> <<>>,
     responded |-> FALSE, resp |-> Err("")]

\* The frame of an invocation that has not started.  The fields after
\* reason record the calls the invocation has made: the number of put1 calls
\* that put a message, the number of get calls that returned a message, the
\* messages they returned and the queues they came from, the convert
\* argument of each unpack_bag call, the argument of the PCFCommandResponse
\* call, whether a get reported "no message available", and the reason of a
\* failed get with the counts at that moment.
NewFrame ==
    [pc |-> "idle", dyn_queue |-> "", msg_id |-> 0, out_structs |-> <<>>,
     result |-> <<>>, err |-> "", reason |-> 0, puts |-> 0, gets |-> 0,
     received |-> <<>>, convs |-> <<>>, handed |-> <<>>, nomsg |-> FALSE,
     failure |-> <<>>]

Init ==
    /\ cmd \in { PCFCommandInit(a.ccsid, a.encoding, "", a.convert, a.zos)
                 : a \in CmdArgs }
    /\ inv = [i \in Invocations |-> NewFrame]
    /\ cmdq = {}
    /\ replyq = [q \in {DynQueueName[i] : i \in Invocations} |-> <<>>]
    /\ callerDests = CallerQueues
    /\ openDests = callerDests
    /\ replies = 0
    /\ strays = 0
    /\ args = NoArgs
    /\ pk_in = [command |-> MQCMD_NONE, parm_list |-> <<>>]
    /\ pk_out = NotPacked
    /\ st = NoStruct
    /\ rb = NoBag

\* The dynamic queues the invocations have opened.
ExecDests == {inv[i].dyn_queue : i \in Invocations} \ {""}

\* An exception leaves execute_command.
Raise(s, err, reason) ==
    [s EXCEPT !.pc = "error", !.err = err, !.reason = reason]

\* A variant of line 1027 that opens no queue of its own.
DestsAfterOpen_None(dests, q) == dests

\* Line 1027: the open queues after pymqi.Queue(...) opened q.
DestsAfterOpen(dests, q) == dests \cup {q}

\* A variant of lines 1042 and 1051 that takes any message.
GetMatches_Any(m, correl_id) == TRUE

\* Lines 1042 and 1051: the get matches on the correlation id.
GetMatches(m, correl_id) == m.correl = correl_id

\* A variant of lines 1056-1059 without the comparison of code pages.
ConvertFor_Configured(self, msg_ccsid) == self.convert

\* Lines 1056-1059: the convert argument of unpack_bag for one message.
ConvertFor(self, msg_ccsid) ==
    IF msg_ccsid # self.ccsid THEN FALSE ELSE self.convert

\* Line 1072: the constructor returned r and execute_command returns it.
Return(s, r) ==
    IF r.ok THEN [s EXCEPT !.pc = "done", !.result = <<r.val>>]
    ELSE Raise(s, r.err, 0)

\* Lines 1071-1072: the bags go to PCFCommandResponse and its result is
\* returned.
AfterLoop(s) ==
    Return([s EXCEPT !.handed = <<s.out_structs>>],
           PCFCommandResponse(s.out_structs))

\* Line 1048: the loop ends when done is set.
LoopTest(s, done) == IF done THEN AfterLoop(s) ELSE s

\* A variant of lines 1061-1063 that does not test the Control flag.
OnUnpacked_IgnoreLast(s, rep_structs) ==
    IF ~rep_structs.ok THEN Raise(s, rep_structs.err, 0)
    ELSE IF rep_structs.none THEN Raise(s, "TypeError", 0)
    ELSE [s EXCEPT !.out_structs = Append(@, rep_structs.val)]

\* A variant of lines 1056-1063 that skips a message unpack_bag raises for.
OnUnpacked_SkipErrors(s, rep_structs) ==
    IF ~rep_structs.ok THEN s
    ELSE IF rep_structs.none THEN Raise(s, "TypeError", 0)
    ELSE LoopTest([s EXCEPT !.out_structs = Append(@, rep_structs.val)],
                  Get(rep_structs.val[1], "Control") = PyInt(MQCFC_LAST))

\* Lines 1061-1063: unpack_bag returned rep_structs.  None has no item 0
\* (TypeError).  When the parse loop of unpack_bag does not end, the
\* invocation stays in the call.
OnUnpacked(s, rep_structs) ==
    IF rep_structs = BagErr("nontermination") THEN [s EXCEPT !.pc = "unpacking"]
    ELSE IF ~rep_structs.ok THEN Raise(s, rep_structs.err, 0)
    ELSE IF rep_structs.none THEN Raise(s, "TypeError", 0)
    ELSE LoopTest([s EXCEPT !.out_structs = Append(@, rep_structs.val)],
                  Get(rep_structs.val[1], "Control") = PyInt(MQCFC_LAST))

\* self.unpack_bag(message_data, convert) for the body of each kind of reply
\* under each PCFCommand object and each convert argument.
ReplyBags ==
    [self \in { PCFCommandInit(a.ccsid, a.encoding, "", a.convert, a.zos)
                : a \in CmdArgs },
     kind \in {k.kind : k \in ReplyKinds} \cup {"nolen"}, convert \in BOOLEAN |->
        unpack_bag(self, ReplyBody(kind, self.encoding), convert)]

\* Lines 1056-1059 with the convert argument conv.
OnConvert(self, s, m, conv) ==
    OnUnpacked([s EXCEPT !.convs = Append(@, conv)],
               ReplyBags[self, m.kind, conv])

\* Lines 1056-1063: the body of the loop after get returned message m.
OnReply(self, s, m) == OnConvert(self, s, m, ConvertFor(self, m.ccsid))

\* A variant of lines 1065-1069 that puts the request again after the first
\* "no message available".
HandleGetError_Resend(s, reason) ==
    IF reason = MQRC_NO_MSG_AVAILABLE
    THEN IF s.puts < 2 THEN [s EXCEPT !.puts = @ + 1] ELSE LoopTest(s, TRUE)
    ELSE Raise(s, "MQMIError", reason)

\* A variant of lines 1065-1069 that raises every MQMIError.
HandleGetError_RaiseAll(s, reason) == Raise(s, "MQMIError", reason)

\* A variant of lines 1065-1069 that ends the loop on every MQMIError.
HandleGetError_SwallowAll(s, reason) == LoopTest(s, TRUE)

\* Lines 1065-1069: get raised MQMIError with the given reason.
HandleGetError(s, reason) ==
    IF reason = MQRC_NO_MSG_AVAILABLE THEN LoopTest(s, TRUE)
    ELSE Raise(s, "MQMIError", reason)

\* Lines 1020-1030: the dynamic reply queue is opened.
Open(i) ==
    /\ inv[i].pc = "idle"
    /\ LET q == DynQueueName[i]
       IN  /\ inv' = [inv EXCEPT ![i].pc = "opened", ![i].dyn_queue = q]
           /\ openDests' = DestsAfterOpen(openDests, q)
    /\ UNCHANGED <<cmd, cmdq, replyq, callerDests, replies, strays>>
    /\ UNCHANGED packVars

\* Line 1027: the open fails.
OpenFail(i) ==
    /\ inv[i].pc = "idle"
    /\ \E r \in FailureReasons : inv' = [inv EXCEPT ![i] = Raise(@, "MQMIError", r)]
    /\ UNCHANGED <<cmd, cmdq, replyq, openDests, callerDests, replies,
                   strays>>
    /\ UNCHANGED packVars

\* Lines 1034-1037: pack_bag returned msg_body; unless it raised, put1 puts
\* the request and stores its MsgId in mqmd.
Put(i, msg_body) ==
    IF ~msg_body.ok
    THEN /\ inv' = [inv EXCEPT ![i] = Raise(@, msg_body.err, 0)]
         /\ UNCHANGED cmdq
    ELSE /\ cmdq' = cmdq \cup {[msg_id |-> MsgIdOf[i],
                                 reply_to |-> inv[i].dyn_queue,
                                 ccsid |-> cmd.ccsid,
                                 encoding |-> cmd.encoding,
                                 expiry |-> Expiry,
                                 body |-> msg_body.val]}
         /\ inv' = [inv EXCEPT ![i].pc = "sent", ![i].msg_id = MsgIdOf[i],
                               ![i].puts = @ + 1]

\* Lines 1034-1046: the request is packed and put on the command queue.
Send(i) ==
    /\ inv[i].pc = "opened"
    /\ \E parm_list \in ParmLists :
         Put(i, pack_bag(cmd, MQCMD_INQUIRE_Q, parm_list))
    /\ UNCHANGED <<cmd, replyq, openDests, callerDests, replies, strays>>
    /\ UNCHANGED packVars

\* Line 1037: put1 fails.
SendFail(i) ==
    /\ inv[i].pc = "opened"
    /\ \E parm_list \in ParmLists : pack_bag(cmd, MQCMD_INQUIRE_Q, parm_list).ok
    /\ \E r \in FailureReasons : inv' = [inv EXCEPT ![i] = Raise(@, "MQMIError", r)]
    /\ UNCHANGED <<cmd, cmdq, replyq, openDests, callerDests, replies,
                   strays>>
    /\ UNCHANGED packVars

\* The positions of the messages on queue q that a get with correl_id takes.
Matching(q, correl_id) ==
    {j \in 1..Len(replyq[q]) : GetMatches(replyq[q][j], correl_id)}

\* The sequence s without its j-th item.
Without(s, j) == SubSeq(s, 1, j - 1) \o SubSeq(s, j + 1, Len(s))

\* Lines 1049-1063: get returns the first matching message.
Receive(i) ==
    /\ inv[i].pc = "sent"
    /\ LET q == inv[i].dyn_queue
           match == Matching(q, inv[i].msg_id)
       IN  /\ match # {}
           /\ LET j == CHOOSE j \in match : \A k \in match : j <= k
                  m == replyq[q][j]
                  s == [inv[i] EXCEPT !.gets = @ + 1,
                                      !.received = Append(@, [msg |-> m, q |-> q])]
              IN  /\ replyq' = [replyq EXCEPT ![q] = Without(@, j)]
                  /\ inv' = [inv EXCEPT ![i] = OnReply(cmd, s, m)]
    /\ UNCHANGED <<cmd, cmdq, openDests, callerDests, replies, strays>>
    /\ UNCHANGED packVars

\* Lines 1053 and 1065-1067: no matching message arrives within the wait
\* interval and get raises reason 2033.
NoMessage(i) ==
    /\ inv[i].pc = "sent"
    /\ Matching(inv[i].dyn_queue, inv[i].msg_id) = {}
    /\ inv' = [inv EXCEPT ![i] =
                  HandleGetError([@ EXCEPT !.nomsg = TRUE], MQRC_NO_MSG_AVAILABLE)]
    /\ UNCHANGED <<cmd, cmdq, replyq, openDests, callerDests, replies,
                   strays>>
    /\ UNCHANGED packVars

\* Lines 1053 and 1068-1069: get fails for another reason.
GetFail(i) ==
    /\ inv[i].pc = "sent"
    /\ \E r \in FailureReasons :
         LET f == [reason |-> r, gets |-> inv[i].gets, puts |-> inv[i].puts]
         IN  inv' = [inv EXCEPT ![i] =
                        HandleGetError([@ EXCEPT !.failure = <<f>>], r)]
    /\ UNCHANGED <<cmd, cmdq, replyq, openDests, callerDests, replies,
                   strays>>
    /\ UNCHANGED packVars

\* The Queue object of a finished invocation is finalised and the queue
\* manager closes its handle; the source has no close call.
Finalize(i) ==
    /\ inv[i].pc \in {"done", "error"}
    /\ inv[i].dyn_queue \in openDests
    /\ openDests' = openDests \ {inv[i].dyn_queue}
    /\ UNCHANGED <<cmd, inv, cmdq, replyq, callerDests, replies, strays>>
    /\ UNCHANGED packVars

\* The invocation that opened queue q is still in its receive loop.
Listening(q) == \E i \in Invocations : inv[i].dyn_queue = q /\ inv[i].pc = "sent"

\* The command server answers a request on its ReplyToQ with the request's
\* MsgId as CorrelId.  A reply that arrives after the invocation has ended
\* is never read and is left out.
ServerReply ==
    /\ replies < MaxReplies
    /\ \E req \in cmdq, r \in ReplyKinds :
         /\ Listening(req.reply_to)
         /\ replyq' = [replyq EXCEPT ![req.reply_to] =
                          Append(@, [correl |-> req.msg_id,
                                     ccsid |-> IF r.same THEN cmd.ccsid
                                               ELSE OtherCcsid,
                                     kind |-> r.kind])]
    /\ replies' = replies + 1
    /\ UNCHANGED <<cmd, inv, cmdq, openDests, callerDests, strays>>
    /\ UNCHANGED packVars

\* Another application puts a message on the reply queue of a receiving
\* invocation; its CorrelId is the MsgId of another request.
StrayPut ==
    /\ strays < MaxStray
    /\ \E i \in Invocations :
         /\ Listening(inv[i].dyn_queue)
         /\ \E k \in Invocations \ {i} :
              replyq' = [replyq EXCEPT ![inv[i].dyn_queue] =
                            Append(@, [correl |-> MsgIdOf[k], ccsid |-> cmd.ccsid,
                                       kind |-> "last"])]
    /\ strays' = strays + 1
    /\ UNCHANGED <<cmd, inv, cmdq, openDests, callerDests, replies>>
    /\ UNCHANGED packVars

Next ==
    \/ \E i \in Invocations : Open(i)
    \/ \E i \in Invocations : OpenFail(i)
    \/ \E i \in Invocations : Send(i)
    \/ \E i \in Invocations : SendFail(i)
    \/ \E i \in Invocations : Receive(i)
    \/ \E i \in Invocations : NoMessage(i)
    \/ \E i \in Invocations : GetFail(i)
    \/ \E i \in Invocations : Finalize(i)
    \/ ServerReply
    \/ StrayPut

Spec == Init /\ [][Next]_vars

\* The command server answers a request with a reply that holds an Integer
\* structure whose StrucLength is 0.
BadReply ==
    /\ replies < MaxReplies
    /\ \E req \in cmdq :
         /\ Listening(req.reply_to)
         /\ replyq' = [replyq EXCEPT ![req.reply_to] =
                          Append(@, [correl |-> req.msg_id, ccsid |-> cmd.ccsid,
                                     kind |-> "nolen"])]
    /\ replies' = replies + 1
    /\ UNCHANGED <<cmd, inv, cmdq, openDests, callerDests, strays>>
    /\ UNCHANGED packVars

NextLive ==
    \/ Next
    \/ BadReply

\* Every get of a receiving invocation returns: with a message, with "no
\* message available" after the wait interval (line 1043) or with a
\* failure.
GetReturns ==
    \A i \in Invocations : WF_vars(Receive(i) \/ NoMessage(i) \/ GetFail(i))

SpecLive == Init /\ [][NextLive]_vars /\ GetReturns

----------------------------------------------------------------------------
(* Properties of execute_command.                                          *)

\* The bags unpack_bag gives for message m under the configured object.
BagOf(m) ==
    ReplyBags[cmd, m.kind, IF m.ccsid # cmd.ccsid THEN FALSE ELSE cmd.convert]

\* The header of the bag has Control = LAST.
IsLastBag(bag) == Get(bag[1], "Control") = PyInt(MQCFC_LAST)

\* unpack_bag gave a bag whose header has Control = LAST.
IsLastResult(r) == r.ok /\ ~r.none /\ IsLastBag(r.val)

\* C1: an invocation puts its request at most once; whenever it has
\* received a message, waits in the receive loop or has returned, it has put
\* the request exactly once, so the put comes before the first receive and
\* is not repeated after replies, timeouts or failures.
C1_PutExactlyOnce ==
    \A i \in Invocations :
        /\ inv[i].puts <= 1
        /\ (inv[i].gets > 0 \/ inv[i].nomsg \/ inv[i].failure # <<>>
            \/ inv[i].pc \in {"sent", "done"}) => inv[i].puts = 1
        /\ Cardinality({r \in cmdq : r.msg_id = MsgIdOf[i]}) = inv[i].puts

\* An invocation has put once, received two replies, then timed out and
\* returned.
C1_Witness ==
    \E i \in Invocations :
        /\ inv[i].puts = 1 /\ inv[i].gets = 2
        /\ inv[i].nomsg /\ inv[i].pc = "done"

\* C2: the list given to PCFCommandResponse holds the bags of the messages
\* received, in the order of receipt; a bag with Control = LAST ends the
\* loop, so it is the last message received and the last bag of the list,
\* and every other bag is recorded while the loop goes on.
C2_BatchIsRepliesUpToLast ==
    \A i \in Invocations :
        /\ Len(inv[i].received) = inv[i].gets
        /\ \A j \in 1..Len(inv[i].received) :
             IsLastResult(BagOf(inv[i].received[j].msg))
                => j = Len(inv[i].received) /\ inv[i].pc # "sent"
        /\ inv[i].pc = "sent" => Len(inv[i].out_structs) = Len(inv[i].received)
        /\ inv[i].handed # <<>> =>
             /\ Len(inv[i].handed[1]) = Len(inv[i].received)
             /\ \A j \in 1..Len(inv[i].received) :
                  inv[i].handed[1][j] = BagOf(inv[i].received[j].msg).val
             /\ \A j \in 1..Len(inv[i].handed[1]) :
                  IsLastBag(inv[i].handed[1][j]) => j = Len(inv[i].handed[1])
             /\ \/ inv[i].nomsg
                \/ /\ inv[i].handed[1] # <<>>
                   /\ IsLastBag(inv[i].handed[1][Len(inv[i].handed[1])])

\* An invocation returned a response built from two bags, the second one
\* with Control = LAST, without a timeout.
C2_Witness ==
    \E i \in Invocations :
        /\ inv[i].pc = "done" /\ ~inv[i].nomsg
        /\ Len(inv[i].handed[1]) = 2
        /\ ~IsLastBag(inv[i].handed[1][1])
        /\ IsLastBag(inv[i].handed[1][2])

\* C3 as stated: after "no message available" the invocation returns
\* normally a response that holds the n bags accumulated, for every n >= 0.
C3_Original ==
    \A i \in Invocations :
        inv[i].nomsg =>
            /\ inv[i].pc = "done"
            /\ inv[i].result # <<>>
            /\ inv[i].result[1].struct_list = inv[i].out_structs
            /\ Len(inv[i].out_structs) = inv[i].gets

\* C3: after "no message available" the loop ends and exactly the n bags
\* accumulated go to PCFCommandResponse.  With n >= 1 the response that holds
\* them is returned unless the constructor rejects a bag; with n = 0 the
\* constructor raises PYIFError and the invocation does not return normally.
C3_TimeoutHandsBags ==
    \A i \in Invocations :
        inv[i].nomsg =>
            /\ inv[i].handed = <<inv[i].out_structs>>
            /\ Len(inv[i].out_structs) = inv[i].gets
            /\ IF inv[i].gets = 0
               THEN /\ inv[i].pc = "error"
                    /\ inv[i].err = "PYIFError"
                    /\ inv[i].result = <<>>
               ELSE \/ /\ inv[i].pc = "done"
                       /\ inv[i].result # <<>>
                       /\ inv[i].result[1].struct_list = inv[i].out_structs
                    \/ /\ inv[i].pc = "error"
                       /\ inv[i].result = <<>>
                       /\ inv[i].err = PCFCommandResponse(inv[i].out_structs).err

\* One invocation timed out before any reply and raised, another timed out
\* after a reply and returned.
C3_Witness ==
    \E i, k \in Invocations :
        /\ inv[i].nomsg /\ inv[i].gets = 0 /\ inv[i].pc = "error"
        /\ inv[k].nomsg /\ inv[k].gets >= 1 /\ inv[k].pc = "done"

\* C4: when a get fails for a reason other than "no message available" the
\* MQMIError reaches the caller with its reason; no response is built, and
\* no get or put follows, however many bags were accumulated.
C4_FailurePropagates ==
    \A i \in Invocations :
        inv[i].failure # <<>> =>
            /\ inv[i].pc = "error"
            /\ inv[i].err = "MQMIError"
            /\ inv[i].reason = inv[i].failure[1].reason
            /\ inv[i].reason # MQRC_NO_MSG_AVAILABLE
            /\ inv[i].result = <<>>
            /\ inv[i].handed = <<>>
            /\ inv[i].gets = inv[i].failure[1].gets
            /\ inv[i].puts = inv[i].failure[1].puts
            /\ inv[i].puts = 1

\* A get failed after a bag had been accumulated.
C4_Witness ==
    \E i \in Invocations :
        /\ inv[i].failure # <<>>
        /\ Len(inv[i].out_structs) >= 1
        /\ inv[i].pc = "error"

\* C5: every message an invocation receives comes from its own dynamic
\* queue and carries the MsgId of its own request as CorrelId, so no
\* invocation consumes or records a reply to another one.
C5_OwnRepliesOnly ==
    \A i \in Invocations :
        /\ inv[i].msg_id \in {0, MsgIdOf[i]}
        /\ \A k \in Invocations \ {i} :
             inv[i].dyn_queue = "" \/ inv[i].dyn_queue # inv[k].dyn_queue
        /\ \A j \in 1..Len(inv[i].received) :
             /\ inv[i].received[j].msg.correl = inv[i].msg_id
             /\ inv[i].received[j].q = inv[i].dyn_queue
             /\ \A k \in Invocations \ {i} :
                  inv[i].received[j].msg.correl # MsgIdOf[k]

\* Both invocations have received a reply, and a message with the other
\* request's CorrelId is still on the queue of an invocation that returned.
C5_Witness ==
    \E i \in Invocations : \E k \in Invocations \ {i} :
        /\ Len(inv[i].received) >= 1 /\ Len(inv[k].received) >= 1
        /\ inv[i].pc = "done"
        /\ \E j \in 1..Len(replyq[inv[i].dyn_queue]) :
             replyq[inv[i].dyn_queue][j].correl = MsgIdOf[k]

C7_ConvertPerBag ==
    \A i \in Invocations :
        /\ Len(inv[i].convs) = Len(inv[i].received)
        /\ \A j \in 1..Len(inv[i].convs) :
             inv[i].convs[j] =
                IF inv[i].received[j].msg.ccsid = cmd.ccsid
                THEN cmd.convert ELSE FALSE

\* With convert configured, a bag in another code page was decoded without
\* conversion and the next bag, in the configured code page, with it.
C7_Witness ==
    \E i \in Invocations :
        /\ cmd.convert
        /\ inv[i].convs = <<FALSE, TRUE>>
        /\ inv[i].received[1].msg.ccsid # cmd.ccsid
        /\ inv[i].received[2].msg.ccsid = cmd.ccsid
        /\ inv[i].pc = "done"

----------------------------------------------------------------------------
(* pack_bag called on its own: a parm_list is made of up to MaxParms       *)
(* directives and packed under one of the PCFCommand objects.              *)

MaxParms == 2

\* The PCFCommand objects pack_bag is called on: native without and with
\* conversion, z/OS with explicit ccsid and encoding, and the z/OS defaults.
PackCmdArgs ==
    { [ccsid |-> PyInt(437), encoding |-> PyInt(MQENC_NATIVE), convert |-> FALSE,
       zos |-> FALSE],
      [ccsid |-> PyInt(437), encoding |-> PyInt(MQENC_NATIVE), convert |-> TRUE,
       zos |-> FALSE],
      [ccsid |-> PyInt(37), encoding |-> PyInt(785), convert |-> FALSE,
       zos |-> TRUE],
      [ccsid |-> PyNone, encoding |-> PyNone, convert |-> FALSE, zos |-> TRUE] }

\* The values of the directives: 1, "A*", b"\xc1\\", [1, 2], ["A", "B"],
\* [b"A"], 1.5, None, [] and [1.5].
PackValues ==
    << PyInt(1), PyStr(<<65, 42>>), PyBytes(<<193, 92>>),
       PyList(<<PyInt(1), PyInt(2)>>),
       PyList(<<PyStr(<<65>>), PyStr(<<66>>)>>),
       PyList(<<PyBytes(<<65>>)>>),
       PyFloat, PyNone, PyList(<<>>), PyList(<<PyFloat>>) >>

\* The structure instances given as directives.
PackInstances ==
    { SetAttr(SetAttr(CFIN, "Parameter", PyInt(MQIA_Q_TYPE)), "Value", PyInt(1)),
      set_string(SetAttr(CFST, "Parameter", PyInt(MQCA_Q_NAME)),
                 PyBytes(<<193, 92>>)) }

\* The commands pack_bag is called with.
PackCommands == {MQCMD_INQUIRE_Q_MGR, MQCMD_INQUIRE_Q}

\* The parameter id that goes with a value.
ParmFor(v) ==
    IF v.k = "int" \/ (v.k = "list" /\ Len(v.s) > 0 /\ v.s[1].k = "int")
    THEN MQIA_Q_TYPE ELSE MQCA_Q_NAME

InitPack ==
    /\ cmd \in { PCFCommandInit(a.ccsid, a.encoding, "", a.convert, a.zos)
                 : a \in PackCmdArgs }
    /\ inv = [i \in Invocations |-> NewFrame]
    /\ cmdq = {}
    /\ replyq = [q \in {DynQueueName[i] : i \in Invocations} |-> <<>>]
    /\ callerDests = CallerQueues
    /\ openDests = callerDests
    /\ replies = 0
    /\ strays = 0
    /\ args = NoArgs
    /\ pk_in = [command |-> MQCMD_NONE, parm_list |-> <<>>]
    /\ pk_out = NotPacked
    /\ st = NoStruct
    /\ rb = NoBag

\* The arguments of the next call: parm_list with directive d added.
WithDirective(d) ==
    [command |-> MQCMD_NONE, parm_list |-> Append(pk_in.parm_list, d)]

\* The caller adds {parm: value} or (parm, value).
PackChoose ==
    /\ Len(pk_in.parm_list) < MaxParms
    /\ \E form \in {"dict", "tuple"}, v \in 1..Len(PackValues) :
         pk_in' = WithDirective(Directive(form, IF form = "dict" THEN 1 ELSE 2,
                                          ParmFor(PackValues[v]), PackValues[v]))
    /\ pk_out' = NotPacked
    /\ UNCHANGED <<cmd, args, execVars, st, rb>>

\* The caller adds {}, () or (parm,).
PackShort ==
    /\ Len(pk_in.parm_list) < MaxParms
    /\ \E d \in { Directive("dict", 0, 0, PyNone), Directive("tuple", 0, 0, PyNone),
                 Directive("tuple", 1, MQIA_Q_TYPE, PyNone) } :
         pk_in' = WithDirective(d)
    /\ pk_out' = NotPacked
    /\ UNCHANGED <<cmd, args, execVars, st, rb>>

\* The caller adds a structure instance.
PackInstance ==
    /\ Len(pk_in.parm_list) < MaxParms
    /\ \E o \in PackInstances : pk_in' = WithDirective(OptsDirective(o))
    /\ pk_out' = NotPacked
    /\ UNCHANGED <<cmd, args, execVars, st, rb>>

\* pack_bag(command, parm_list)
PackCall ==
    /\ ~pk_out.done
    /\ \E command \in PackCommands :
         /\ pk_in' = [pk_in EXCEPT !.command = command]
         /\ pk_out' = [done |-> TRUE,
                       res |-> pack_bag(cmd, command, pk_in.parm_list)]
    /\ UNCHANGED <<cmd, args, execVars, st, rb>>

NextPack ==
    \/ PackChoose
    \/ PackShort
    \/ PackInstance
    \/ PackCall

SpecPack == InitPack /\ [][NextPack]_vars

----------------------------------------------------------------------------
(* Properties of pack_bag.                                                 *)

RECURSIVE Structs(_, _)
\* The type and parameter id of the structures that follow each other in
\* buf, found by their StrucLength fields; a structure whose length does not
\* fit ends the list with type -1.
Structs(buf, big) ==
    IF Len(buf) = 0 THEN <<>>
    ELSE IF \/ Len(buf) < 12
            \/ UnpackLong(Slice(buf, 4, 8), big) < 12
            \/ UnpackLong(Slice(buf, 4, 8), big) > Len(buf)
    THEN <<[type |-> -1, parameter |-> 0]>>
    ELSE <<[type |-> UnpackLong(Slice(buf, 0, 4), big),
            parameter |-> UnpackLong(Slice(buf, 8, 12), big)]>>
         \o Structs(SliceFrom(buf, UnpackLong(Slice(buf, 4, 8), big)), big)

\* The parameter id directive d names.
ParmOf(d) == IF d.form = "opts" THEN Get(d.obj, "Parameter").i ELSE d.parm

\* The body is a header for command with Control = LAST and ParameterCount =
\* the number of directives, followed by one structure per directive, in
\* the order of the directives.
WellFormedBag(body, command, parm_list, big) ==
    /\ Len(body) >= MQCFH_STRUC_LENGTH
    /\ UnpackLong(Slice(body, 4, 8), big) = MQCFH_STRUC_LENGTH
    /\ UnpackLong(Slice(body, 12, 16), big) = command
    /\ UnpackLong(Slice(body, 20, 24), big) = MQCFC_LAST
    /\ UnpackLong(Slice(body, 32, 36), big) = Len(parm_list)
    /\ Len(Structs(SliceFrom(body, MQCFH_STRUC_LENGTH), big)) = Len(parm_list)
    /\ \A j \in 1..Len(parm_list) :
         Structs(SliceFrom(body, MQCFH_STRUC_LENGTH), big)[j].parameter
            = ParmOf(parm_list[j])

\* C8 as stated: every body pack_bag returns is a header with the given
\* command, Control = LAST and ParameterCount = n followed by exactly n
\* structures, one per directive, in the order of the directives.
C8_Original ==
    (pk_out.done /\ pk_out.res.ok) =>
        WellFormedBag(pk_out.res.val, pk_in.command, pk_in.parm_list,
                      cmd.encoding \in big_endian_encodings)

\* The value is a single integer, a single string, a list of integers or a
\* list of strings.
FourShapes(v) ==
    \/ v.k = "int"
    \/ IsText(v)
    \/ /\ v.k = "list"
       /\ Len(v.s) > 0
       /\ (v.s[1].k = "int" \/ IsText(v.s[1]))

\* The directive is empty, holds an id without a value, or holds a value
\* that has none of the four shapes.
InvalidDirective(d) ==
    /\ d.form \in {"dict", "tuple"}
    /\ \/ d.n = 0
       \/ (d.form = "tuple" /\ d.n = 1)
       \/ ~FourShapes(d.val)

\* C9 as stated: pack_bag raises PYIFError when the first directive is empty
\* or holds a value that has none of the four shapes.
C9_Original ==
    (/\ pk_out.done
     /\ pk_in.parm_list # <<>>
     /\ InvalidDirective(pk_in.parm_list[1]))
        => (~pk_out.res.ok /\ pk_out.res.err = "PYIFError")

\* The tuple form of a dict directive of one item.
TupleForm(d) == Directive("tuple", 2, d.parm, d.val)

\* C10 as stated: when pack_bag packs {parm: value} or (parm, value), it
\* returns the same bytes for both forms, under both settings of convert.
C10_Original ==
    (/\ pk_out.done
     /\ Len(pk_in.parm_list) = 1
     /\ pk_in.parm_list[1].form = "dict"
     /\ pk_in.parm_list[1].n = 1
     /\ \/ pk_out.res.ok
        \/ pack_bag(cmd, pk_in.command, <<TupleForm(pk_in.parm_list[1])>>).ok)
        => pack_bag(cmd, pk_in.command, <<TupleForm(pk_in.parm_list[1])>>)
              = pk_out.res

----------------------------------------------------------------------------
(* unpack_bag and PCFCommandResponse on reply buffers.                     *)
(*                                                                         *)
(* A caller builds reply buffers as the command server sends them (a      *)
(* header and parameter structures), gives each to unpack_bag, collects    *)
(* the bags as lines 1046-1063 do and builds a PCFCommandResponse from     *)
(* them.  The structures of a buffer are named by their kind.              *)

\* Bounds: the parameter structures of all buffers of one batch, and the
\* buffers of one batch.
MaxStructs == 2
MaxBags == 2

\* The PCFCommand objects: a native unconverted one, one that converts
\* UTF-8 text and a z/OS one.
BagCmdArgs ==
    { [ccsid |-> PyInt(437), encoding |-> PyInt(MQENC_NATIVE), ccsid_str |-> "",
       convert |-> FALSE, zos |-> FALSE],
      [ccsid |-> PyInt(OtherCcsid), encoding |-> PyInt(MQENC_NATIVE),
       ccsid_str |-> "utf-8", convert |-> TRUE, zos |-> FALSE],
      [ccsid |-> PyInt(37), encoding |-> PyInt(785), ccsid_str |-> "",
       convert |-> FALSE, zos |-> TRUE] }

\* The parameter structures of supported types whose StrucLength is the
\* length of their bytes, and the other ones.
SupportedKinds == {"int", "int2", "text", "textQ", "ints", "list", "bytes"}
ChunkKinds ==
    SupportedKinds \cup {"group", "wide", "zero", "over", "long", "count",
                         "nolen", "neglen"}

\* The structure o with its Parameter and StrucLength fields set.
Parm(o, id, struc_len) ==
    SetAttr(SetAttr(o, "Parameter", PyInt(id)), "StrucLength", PyInt(struc_len))

\* The bytes of a String structure with the given fields and payload.
TextChunk(id, struc_len, string_len, payload, encoding) ==
    Bytes(SetAttr(Parm(CFST, id, struc_len), "StringLength", PyInt(string_len)),
          encoding) \o payload

\* The bytes of an IntegerList structure with the given fields and values.
IntsChunk(id, struc_len, count, ints, encoding) ==
    Bytes(SetAttr(Parm(CFIL, id, struc_len), "Count", PyInt(count)), encoding)
    \o PackLongs(ints, encoding \in big_endian_encodings).val

\* The bytes of the parameter structure of each kind in the byte order of
\* encoding.
ChunkBytes(kind, encoding) ==
    CASE kind = "int" ->
            Bytes(SetAttr(Parm(CFIN, MQIA_Q_TYPE, MQCFIN_STRUC_LENGTH),
                          "Value", PyInt(1)), encoding)
      [] kind = "int2" ->
            Bytes(SetAttr(Parm(CFIN, MQIA_Q_TYPE, MQCFIN_STRUC_LENGTH),
                          "Value", PyInt(2)), encoding)
      [] kind = "text" ->
            TextChunk(MQCA_Q_NAME, MQCFST_STRUC_LENGTH_FIXED + 2, 2,
                      <<65, 66>>, encoding)
      [] kind = "textQ" ->
            TextChunk(MQIA_Q_TYPE, MQCFST_STRUC_LENGTH_FIXED + 2, 2,
                      <<67, 68>>, encoding)
      [] kind = "ints" ->
            IntsChunk(MQIA_Q_TYPE, MQCFIL_STRUC_LENGTH_FIXED + 8, 2,
                      <<PyInt(1), PyInt(2)>>, encoding)
      [] kind = "list" ->
            Bytes(SetAttr(SetAttr(Parm(CFSL, MQCA_Q_NAME,
                                       MQCFSL_STRUC_LENGTH_FIXED + 4),
                                  "Count", PyInt(2)),
                          "StringLength", PyInt(2)), encoding)
            \o <<65, 66, 67, 68>>
      [] kind = "bytes" ->
            Bytes(SetAttr(Parm(CFBS, MQCA_Q_NAME, MQCFBS_STRUC_LENGTH_FIXED + 2),
                          "StringLength", PyInt(2)), encoding)
            \o <<1, 2>>
      \* a structure of a type unpack_bag has no branch for
      [] kind = "group" ->
            Bytes(Parm(CFGR, MQCA_Q_NAME, MQCFGR_STRUC_LENGTH), encoding)
      \* two bytes that are one character of UTF-8
      [] kind = "wide" ->
            TextChunk(MQCA_Q_NAME, MQCFST_STRUC_LENGTH_FIXED + 2, 2,
                      <<195, 169>>, encoding)
      \* StringLength 0 before a text of two bytes
      [] kind = "zero" ->
            TextChunk(MQCA_Q_NAME, MQCFST_STRUC_LENGTH_FIXED + 2, 0,
                      <<65, 66>>, encoding)
      \* StringLength 4 before a text of two bytes
      [] kind = "over" ->
            TextChunk(MQCA_Q_NAME, MQCFST_STRUC_LENGTH_FIXED + 2, 4,
                      <<65, 66>>, encoding)
      \* StrucLength 24 in an Integer structure of 16 bytes
      [] kind = "long" ->
            Bytes(SetAttr(Parm(CFIN, MQIA_Q_TYPE, MQCFIN_STRUC_LENGTH + 8),
                          "Value", PyInt(1)), encoding)
      \* StrucLength 0 in an Integer structure
      [] kind = "nolen" ->
            Bytes(SetAttr(Parm(CFIN, MQIA_Q_TYPE, 0), "Value", PyInt(1)),
                  encoding)
      \* StrucLength -4 in an Integer structure
      [] kind = "neglen" ->
            Bytes(SetAttr(Parm(CFIN, MQIA_Q_TYPE, -4), "Value", PyInt(1)),
                  encoding)
      \* Count 3 before one integer
      [] OTHER ->
            IntsChunk(MQIA_Q_TYPE, MQCFIL_STRUC_LENGTH_FIXED + 4, 3,
                      <<PyInt(1)>>, encoding)

\* The bytes of each kind of parameter structure in each byte order.
ChunkTable ==
    [kind \in ChunkKinds, encoding \in {MQENC_NATIVE, 785} |->
        ChunkBytes(kind, encoding)]

RECURSIVE ChunksBytes(_, _)
\* The bytes of the structures of the kinds in chunks, one after the other.
ChunksBytes(chunks, encoding) ==
    IF chunks = <<>> THEN <<>>
    ELSE ChunkTable[Head(chunks), encoding] \o ChunksBytes(Tail(chunks), encoding)

\* The completion code and the reason code the command server gives to the
\* b-th reply of a batch: every reply of a batch has its own pair.
ReplyCodes(b) == [CompCode |-> b % 3, Reason |-> 3000 + b]

\* The b-th reply buffer of a batch: a header of the given type and the
\* structures of chunks.
BagBuffer(head, b, chunks, encoding) ==
    Bytes(SetAttr(SetAttr(ReplyHeader(head, MQCFC_LAST, Len(chunks)),
                          "CompCode", PyInt(ReplyCodes(b).CompCode)),
                  "Reason", PyInt(ReplyCodes(b).Reason)), encoding)
    \o ChunksBytes(chunks, encoding)

InitBag ==
    /\ cmd \in { PCFCommandInit(a.ccsid, a.encoding, a.ccsid_str, a.convert, a.zos)
                 : a \in BagCmdArgs }
    /\ inv = [i \in Invocations |-> NewFrame]
    /\ cmdq = {}
    /\ replyq = [q \in {DynQueueName[i] : i \in Invocations} |-> <<>>]
    /\ callerDests = CallerQueues
    /\ openDests = callerDests
    /\ replies = 0
    /\ strays = 0
    /\ args = NoArgs
    /\ pk_in = [command |-> MQCMD_NONE, parm_list |-> <<>>]
    /\ pk_out = NotPacked
    /\ st = NoStruct
    /\ rb = NoBag

\* The command server adds a parameter structure to the reply it builds,
\* as long as the batch goes on: an error of unpack_bag leaves the loop of
\* lines 1047-1063, which catches MQMIError only.
AppendStruct ==
    /\ ~rb.responded
    /\ rb.out.ok
    /\ rb.structs < MaxStructs
    /\ Len(rb.src) < MaxBags
    /\ \E kind \in ChunkKinds :
          rb' = [rb EXCEPT !.chunks = Append(rb.chunks, kind),
                           !.structs = rb.structs + 1]
    /\ UNCHANGED <<cmd, args, execVars, pk_in, pk_out, st>>

\* The record of a buffer given to unpack_bag and of what came back: a bag
\* that was returned is appended to the batch (line 1063).
Unpacked(r, head, chunks, convert, out) ==
    [r EXCEPT !.chunks = <<>>,
              !.buf = [head |-> head, chunks |-> chunks, conv |-> convert],
              !.out = out,
              !.batch = IF out.ok /\ ~out.none THEN Append(r.batch, out.val)
                        ELSE r.batch,
              !.src = Append(r.src, [head |-> head, chunks |-> chunks,
                                     conv |-> convert,
                                     ok |-> out.ok /\ ~out.none])]

\* rep_structs = self.unpack_bag(message_data, convert=self.convert) on the
\* reply built, which comes in the character set of the command (line 1057).
UnpackBag ==
    /\ ~rb.responded
    /\ rb.out.ok
    /\ Len(rb.src) < MaxBags
    /\ \E head \in {MQCFT_RESPONSE, MQCFT_XR_SUMMARY} :
          rb' = Unpacked(rb, head, rb.chunks, cmd.convert,
                    unpack_bag(cmd, BagBuffer(head, Len(rb.src) + 1, rb.chunks,
                                              cmd.encoding),
                               cmd.convert))
    /\ UNCHANGED <<cmd, args, execVars, pk_in, pk_out, st>>

\* pcf_r = PCFCommandResponse(out_structs) on the bags collected, reached
\* when no unpack_bag raised.
Respond ==
    /\ ~rb.responded
    /\ rb.out.ok
    /\ rb.chunks = <<>>
    /\ rb' = [rb EXCEPT !.responded = TRUE,
                        !.resp = PCFCommandResponse(rb.batch)]
    /\ UNCHANGED <<cmd, args, execVars, pk_in, pk_out, st>>

NextBag ==
    \/ AppendStruct
    \/ UnpackBag
    \/ Respond

SpecBag == InitBag /\ [][NextBag]_vars

----------------------------------------------------------------------------
(* Properties of unpack_bag and PCFCommandResponse.                        *)

\* The MQLONG at offset off of the structure of the given kind as cmd reads
\* it.
WireLong(kind, off) ==
    UnpackLong(Slice(ChunkTable[kind, cmd.encoding], off, off + 4),
               cmd.encoding \in big_endian_encodings)

\* The last buffer given to unpack_bag holds structures of supported types
\* only, each as long as its StrucLength says.
SupportedBuffer ==
    /\ rb.src # <<>>
    /\ \A j \in 1..Len(rb.buf.chunks) : rb.buf.chunks[j] \in SupportedKinds

\* unpack_bag returned the header and then one structure per parameter
\* structure of the buffer, in wire order.
InWireOrder ==
    /\ rb.out.ok
    /\ ~rb.out.none
    /\ Len(rb.out.val) = Len(rb.buf.chunks) + 1
    /\ Get(rb.out.val[1], "Type").i = rb.buf.head
    /\ \A j \in 1..Len(rb.buf.chunks) :
          /\ Get(rb.out.val[j + 1], "Type").i = WireLong(rb.buf.chunks[j], 0)
          /\ Get(rb.out.val[j + 1], "Parameter").i = WireLong(rb.buf.chunks[j], 8)

\* C11: for a reply buffer made of the 36-byte header and k parameter
\* structures of supported types whose StrucLength fields sum to the rest
\* of the buffer, unpack_bag returns k + 1 structures, the header first and
\* then the k parameter structures in wire order.
C11_Original == SupportedBuffer => InWireOrder

\* The reply message m carries a structure of a type unpack_bag has no
\* branch for.
HasUnsupported(m) == m.kind = "group"

\* C12: a reply buffer with a structure of an unhandled type makes
\* unpack_bag raise PYIFError without any structure list, and in
\* execute_command the error ends the invocation: the message is the last
\* one received, no response is built from the bags accumulated before and
\* no further get is issued.
C12_UnsupportedAborts ==
    \A i \in Invocations : \A j \in 1..Len(inv[i].received) :
        HasUnsupported(inv[i].received[j].msg) =>
            /\ BagOf(inv[i].received[j].msg) = BagErr("PYIFError")
            /\ j = Len(inv[i].received)
            /\ inv[i].gets = j
            /\ Len(inv[i].out_structs) = j - 1
            /\ inv[i].pc = "error"
            /\ inv[i].err = "PYIFError"
            /\ inv[i].result = <<>>
            /\ inv[i].handed = <<>>

\* An invocation accumulated a bag and then received a reply with a
\* structure of an unhandled type.
C12_Witness ==
    \E i \in Invocations :
        /\ Len(inv[i].received) = 2
        /\ HasUnsupported(inv[i].received[2].msg)
        /\ Len(inv[i].out_structs) = 1
        /\ inv[i].pc = "error"

\* The kinds that are String structures.
TextKinds == {"text", "textQ", "wide", "zero", "over"}

\* The last buffer given to unpack_bag was unpacked with conversion and
\* ends with a String structure that follows Integer structures only.
ConvertedText ==
    /\ rb.src # <<>>
    /\ rb.buf.conv
    /\ rb.buf.chunks # <<>>
    /\ rb.buf.chunks[Len(rb.buf.chunks)] \in TextKinds
    /\ \A j \in 1..(Len(rb.buf.chunks) - 1) : rb.buf.chunks[j] \in {"int", "int2"}

\* The StringLength field the String structure of the given kind declares
\* and the bytes that follow its fixed part.
DeclaredLength(kind) == WireLong(kind, 16)
Payload(kind) ==
    SliceFrom(ChunkTable[kind, cmd.encoding], MQCFST_STRUC_LENGTH_FIXED)

\* The text of a String structure whose StringLength is len: the first len
\* bytes of the payload, or the whole payload when len is 0, decoded with
\* the codec of cmd (<<-1>> when the codec cannot decode them).
Transcoded(kind, len) ==
    DecodeBytes(PyCodec(cmd.ccsid_str),
                IF len = 0 THEN Payload(kind) ELSE Slice(Payload(kind), 0, len))

\* unpack_bag with conversion on a buffer that ends with the String
\* structure of the given kind: the mismatch error when the character count
\* of the transcoded text differs from expect, else the structure with
\* the transcoded text.
MismatchOrText(kind, expect) ==
    IF Transcoded(kind, DeclaredLength(kind)) = <<-1>>
    THEN rb.out = BagErr("UnicodeDecodeError")
    ELSE IF Len(Transcoded(kind, DeclaredLength(kind))) # expect
    THEN rb.out = BagErr("PYIFError")
    ELSE /\ rb.out.ok
         /\ ~rb.out.none
         /\ Len(rb.out.val) = Len(rb.buf.chunks) + 1
         /\ Get(rb.out.val[Len(rb.out.val)], "String")
                = PyStr(Transcoded(kind, DeclaredLength(kind)))

\* The StringLength a String structure holds after CFST.unpack: the
\* declared one, or the number of payload bytes when 0 is declared.
EffectiveLength(kind) ==
    IF DeclaredLength(kind) = 0 THEN Len(Payload(kind)) ELSE DeclaredLength(kind)

\* C13 (amended): with conversion enabled unpack_bag raises the mismatch
\* error whenever the character count of the transcoded text of a String
\* structure differs from the StringLength the structure holds after
\* CFST.unpack (the declared one, or the number of payload bytes when 0 is
\* declared), and accepts the structure with the transcoded text whenever
\* the two are equal.
C13_MismatchOnEffectiveLength ==
    ConvertedText =>
        MismatchOrText(rb.buf.chunks[Len(rb.buf.chunks)],
                       EffectiveLength(rb.buf.chunks[Len(rb.buf.chunks)]))

\* A String structure that declares StringLength 0 before two bytes of text
\* was accepted with conversion, and then one whose two bytes are a single
\* character raised the mismatch error.
C13_Witness ==
    /\ Len(rb.src) = 2
    /\ rb.src[1].chunks = <<"zero">> /\ rb.src[1].conv /\ rb.src[1].ok
    /\ ConvertedText
    /\ rb.buf.chunks = <<"wide">>
    /\ rb.out = BagErr("PYIFError")

\* C13 as stated: the character count of the transcoded text is compared
\* with the declared StringLength.
C13_Original ==
    ConvertedText =>
        MismatchOrText(rb.buf.chunks[Len(rb.buf.chunks)],
                       DeclaredLength(rb.buf.chunks[Len(rb.buf.chunks)]))

----------------------------------------------------------------------------
(* The structure classes on their own.                                     *)
(*                                                                         *)
(* A caller constructs one structure, calls its mutating method a number   *)
(* of times (set_string, add_integer or add_string), packs it and unpacks  *)
(* the bytes into a new instance of the class with the same encoding.      *)

\* Bound: the calls of the mutating method on one structure.
MaxCalls == 3

StructClasses == {"CFH", "CFIN", "CFST", "CFIL", "CFSL", "CFBS", "CFGR", "CFIF"}

\* The encoding arguments: the native one and a big-endian one.
StructEncodings == {MQENC_NATIVE, 785}

\* The value the keyword arguments of the constructor give to Parameter (to
\* Command in a header) and to Value.
StructValues == {0, 258}

\* The arguments of set_string (CFST), add_integer (CFIL) and add_string
\* (CFSL).
CallValues(cls) ==
    CASE cls = "CFST" ->
            {PyBytes(<<65, 66>>), PyBytes(<<65, 66, 67, 68>>), PyBytes(<<>>)}
      [] cls = "CFIL" ->
            {PyInt(1), PyInt(2), PyInt(3)}
      [] OTHER ->
            {PyStr(<<65, 66>>), PyStr(<<67, 68>>), PyStr(<<65>>),
             PyStr(<<65, 66, 67>>), PyBytes(<<65, 66>>)}

\* cls(): a new instance of the class.
ClassOf(cls) ==
    CASE cls = "CFH"  -> CFH
      [] cls = "CFIN" -> CFIN
      [] cls = "CFST" -> CFST
      [] cls = "CFIL" -> CFIL
      [] cls = "CFSL" -> CFSL
      [] cls = "CFBS" -> CFBS
      [] cls = "CFGR" -> CFGR
      [] OTHER        -> CFIF

\* cls(**kw) with the keyword arguments Parameter = v (Command = v for a
\* header) and Value = v.
NewStruct(cls, v) ==
    SetAttr(SetAttr(SetAttr(ClassOf(cls), "Parameter", PyInt(v)),
                    "Command", PyInt(v)),
            "Value", PyInt(v))

\* cls().unpack(buff, encoding): the classes without an unpack method of
\* their own inherit the one of MQOptsWithEncoding.
ClassUnpack(cls, buff, encoding) ==
    CASE cls = "CFST" -> CFST_unpack(CFST, buff, encoding)
      [] cls = "CFIL" -> CFIL_unpack(CFIL, buff, encoding)
      [] cls = "CFSL" -> CFSL_unpack(CFSL, buff, encoding)
      [] cls = "CFBS" -> CFBS_unpack(CFBS, buff, encoding)
      [] OTHER        -> Unpack(ClassOf(cls), buff, encoding)

InitStruct ==
    /\ cmd \in { PCFCommandInit(a.ccsid, a.encoding, "", a.convert, a.zos)
                 : a \in CmdArgs }
    /\ inv = [i \in Invocations |-> NewFrame]
    /\ cmdq = {}
    /\ replyq = [q \in {DynQueueName[i] : i \in Invocations} |-> <<>>]
    /\ callerDests = CallerQueues
    /\ openDests = callerDests
    /\ replies = 0
    /\ strays = 0
    /\ args = NoArgs
    /\ pk_in = [command |-> MQCMD_NONE, parm_list |-> <<>>]
    /\ pk_out = NotPacked
    /\ st = NoStruct
    /\ rb = NoBag

\* The structure is constructed.
Construct ==
    /\ st.cls = ""
    /\ \E cls \in StructClasses, enc \in StructEncodings, v \in StructValues :
          st' = [st EXCEPT !.cls = cls, !.enc = enc, !.obj = NewStruct(cls, v)]
    /\ UNCHANGED <<cmd, args, execVars, pk_in, pk_out, rb>>

\* The structure may take one more call of its mutating method: none has
\* raised and it has not been packed.
Mutable(cls) ==
    /\ st.cls = cls
    /\ st.res.ok
    /\ ~st.tripped
    /\ Len(st.calls) < MaxCalls

\* cfst.set_string(value)
SetString ==
    /\ Mutable("CFST")
    /\ \E value \in CallValues("CFST") :
          st' = [st EXCEPT !.obj = set_string(st.obj, value),
                           !.calls = Append(st.calls, value)]
    /\ UNCHANGED <<cmd, args, execVars, pk_in, pk_out, rb>>

\* cfil.add_integer(value, encoding)
AddInteger ==
    /\ Mutable("CFIL")
    /\ \E value \in CallValues("CFIL") :
          st' = [st EXCEPT !.obj = add_integer(st.obj, value, PyInt(st.enc)).obj,
                           !.res = add_integer(st.obj, value, PyInt(st.enc)).res,
                           !.calls = Append(st.calls, value)]
    /\ UNCHANGED <<cmd, args, execVars, pk_in, pk_out, rb>>

\* cfsl.add_string(value)
AddString ==
    /\ Mutable("CFSL")
    /\ \E value \in CallValues("CFSL") :
          st' = [st EXCEPT !.obj = add_string(st.obj, value).obj,
                           !.res = add_string(st.obj, value).res,
                           !.calls = Append(st.calls, value)]
    /\ UNCHANGED <<cmd, args, execVars, pk_in, pk_out, rb>>

\* The record of buff = obj.pack(encoding) and of
\* cls().unpack(buff, encoding), which runs when pack returned.
Tripped(s, packed) ==
    [s EXCEPT !.tripped = TRUE,
              !.obj = packed.obj,
              !.wire = packed.res,
              !.back = IF packed.res.ok
                       THEN ClassUnpack(s.cls, packed.res.val, PyInt(s.enc))
                       ELSE s.back]

\* The structure is packed and the bytes are unpacked into a new instance.
RoundTrip ==
    /\ st.cls # ""
    /\ st.res.ok
    /\ ~st.tripped
    /\ st' = Tripped(st, Pack(st.obj, PyInt(st.enc)))
    /\ UNCHANGED <<cmd, args, execVars, pk_in, pk_out, rb>>

\* obj.pack(encoding) is called once more on the structure that was packed.
PackAgain ==
    /\ st.tripped
    /\ st.wire.ok
    /\ ~st.again.done
    /\ st' = [st EXCEPT !.obj = Pack(st.obj, PyInt(st.enc)).obj,
                        !.again = [done |-> TRUE,
                                   res |-> Pack(st.obj, PyInt(st.enc)).res]]
    /\ UNCHANGED <<cmd, args, execVars, pk_in, pk_out, rb>>

NextStruct ==
    \/ Construct
    \/ SetString
    \/ AddInteger
    \/ AddString
    \/ RoundTrip
    \/ PackAgain

SpecStruct == InitStruct /\ [][NextStruct]_vars

----------------------------------------------------------------------------
(* Properties of the structure classes.                                    *)

\* The characters of value in a slot of width w: padded with spaces or cut.
Slot(value, w) == Slice(value.s, 0, w) \o Repeat(32, w - Len(value.s))

RECURSIVE Slots(_, _)
\* The slots of width w of the values, one after the other.
Slots(values, w) ==
    IF values = <<>> THEN <<>>
    ELSE Slot(Head(values), w) \o Slots(Tail(values), w)

\* add_string was called on a StringList structure, with str values only.
StringsAdded ==
    /\ st.cls = "CFSL"
    /\ st.calls # <<>>
    /\ \A j \in 1..Len(st.calls) : st.calls[j].k = "str"

\* C14: after any sequence of add_string calls every call has succeeded and
\* the payload is Count slots of StringLength bytes (the length of the
\* first value added), a shorter value padded with spaces and a longer one
\* truncated to the slot.
C14_Original ==
    StringsAdded =>
        /\ st.res.ok
        /\ Get(st.obj, "Count").i = Len(st.calls)
        /\ Get(st.obj, "StringLength").i = Len(st.calls[1].s)
        /\ HasAttr(st.obj, "StringList")
        /\ Get(st.obj, "StringList").s = Slots(st.calls, Len(st.calls[1].s))

\* The structure was packed and pack returned bytes.
Packed == st.tripped /\ st.wire.ok

\* Unpack returned a structure in which every member of the packed one is
\* found with the same value.
SameFields ==
    /\ st.back.res.ok
    /\ \A j \in 1..Len(st.obj.flds) :
          /\ HasAttr(st.back.obj, st.obj.flds[j].n)
          /\ Get(st.back.obj, st.obj.flds[j].n) = Get(st.obj, st.obj.flds[j].n)

\* C15: for every structure variant and both byte orders, unpacking with
\* encoding E the bytes pack produced with encoding E gives a structure
\* with the same field values and the same payload.
C15_Original == Packed => SameFields

\* The mutating method of a String, IntegerList or StringList structure
\* was called one or more times and every call returned.
Mutated ==
    /\ st.cls \in {"CFST", "CFIL", "CFSL"}
    /\ st.calls # <<>>
    /\ st.res.ok
    /\ ~st.tripped

\* The fixed width of the variant and the byte length of the payload the
\* calls have left: the last string set, the integers added, the slots of
\* the strings added.
FixedWidth ==
    CASE st.cls = "CFST" -> MQCFST_STRUC_LENGTH_FIXED
      [] st.cls = "CFIL" -> MQCFIL_STRUC_LENGTH_FIXED
      [] OTHER           -> MQCFSL_STRUC_LENGTH_FIXED
PayloadLength ==
    CASE st.cls = "CFST" -> Len(st.calls[Len(st.calls)].s)
      [] st.cls = "CFIL" -> 4 * Len(st.calls)
      [] OTHER           -> Len(st.calls[1].s) * Len(st.calls)

\* C16: after any sequence of set_string, add_integer or add_string calls
\* StrucLength is the fixed width of the variant plus the byte length of
\* the current payload, and Count of a list is the number of elements
\* added.
C16_Original ==
    Mutated =>
        /\ Get(st.obj, "StrucLength").i = FixedWidth + PayloadLength
        /\ st.cls # "CFST" => Get(st.obj, "Count").i = Len(st.calls)

\* The kinds whose length fields do not fit the bytes present: a
\* StringLength larger than the text, a StrucLength larger than the rest of
\* the buffer, a Count larger than the integers.
MisfitKinds == {"over", "long", "count"}

\* The last buffer given to unpack_bag ends with a structure whose length
\* fields do not fit, after Integer structures only.
MisfitBuffer ==
    /\ rb.src # <<>>
    /\ rb.buf.chunks # <<>>
    /\ rb.buf.chunks[Len(rb.buf.chunks)] \in MisfitKinds
    /\ \A j \in 1..(Len(rb.buf.chunks) - 1) : rb.buf.chunks[j] \in {"int", "int2"}

\* C17: decoding rejects with an error every parameter structure whose
\* StrucLength is not the fixed width plus the payload bytes present (a
\* declared string length or count larger than the bytes available, a
\* StrucLength larger than the rest of the buffer).
C17_Original == MisfitBuffer => ~rb.out.ok

\* An IntegerList structure to which integers were added was packed and
\* unpacked with the encoding of the calls.
IntegersTripped ==
    /\ st.cls = "CFIL"
    /\ st.calls # <<>>
    /\ Packed

\* The integers CFIL.unpack appended to integer_list are the ones added;
\* an element is compared by its number, be it an int or the 1-tuple
\* struct.unpack returns.
SameIntegers ==
    /\ st.back.res.ok
    /\ Len(st.back.obj.integer_list) = Len(st.calls)
    /\ \A j \in 1..Len(st.calls) : st.back.obj.integer_list[j].i = st.calls[j].i

\* C18: under a byte order E add_integer writes each element as 4 bytes in
\* order E, Count and StrucLength are the same for both byte orders, and
\* CFIL.unpack with encoding E yields Count integers read in order E, that
\* is the integers added.
C18_Original ==
    IntegersTripped =>
        /\ Get(st.obj, "IntegerList")
              = PyBytes(PackLongs(st.calls, st.enc \in big_endian_encodings).val)
        /\ Get(st.obj, "Count").i = Len(st.calls)
        /\ Get(st.obj, "StrucLength").i
              = MQCFIL_STRUC_LENGTH_FIXED + 4 * Len(st.calls)
        /\ SameIntegers

\* PCFCommandResponse was built and holds one parameter map per bag of the
\* batch, so that the b-th map belongs to the b-th bag.
MapPerBag ==
    /\ rb.responded
    /\ rb.resp.ok
    /\ Len(rb.resp.val.parms) = Len(rb.batch)

\* The position of the last structure of bag that carries the parameter id
\* of its j-th structure.
LastOccurrence(bag, j) ==
    CHOOSE h \in j..Len(bag) :
        /\ Get(bag[h], "Parameter") = Get(bag[j], "Parameter")
        /\ \A g \in (h + 1)..Len(bag) :
              Get(bag[g], "Parameter") # Get(bag[j], "Parameter")

\* The value the structure pcf_st carries.
ValueOf(pcf_st) == Get(pcf_st, ValueAttr(Get(pcf_st, "Type").i))

\* C19: when a parameter id occurs in several parameter structures of one
\* bag, the parameter map of the bag holds the value of the occurrence that
\* is latest in wire order, whatever the variants of the occurrences.
C19_LastWriteWins ==
    MapPerBag =>
        \A b \in 1..Len(rb.batch) : \A j \in 2..Len(rb.batch[b]) :
            /\ Get(rb.batch[b][j], "Parameter").i \in DOMAIN rb.resp.val.parms[b]
            /\ rb.resp.val.parms[b][Get(rb.batch[b][j], "Parameter").i]
                  = ValueOf(rb.batch[b][LastOccurrence(rb.batch[b], j)])

\* A bag carried the parameter id MQIA_Q_TYPE twice, with the value 1 and
\* then with the value 2, and its parameter map holds 2.
C19_Witness ==
    /\ MapPerBag
    /\ rb.src = <<[head |-> MQCFT_RESPONSE, chunks |-> <<"int", "int2">>,
                   conv |-> FALSE, ok |-> TRUE]>>
    /\ rb.resp.val.parms[1][MQIA_Q_TYPE] = PyInt(2)

\* PCFCommandResponse was called with a batch of one or more bags.
Responded == rb.responded /\ rb.batch # <<>>

\* The parameter ids of the parameter structures of a bag.
ParmIds(bag) == {Get(bag[j], "Parameter").i : j \in 2..Len(bag)}

\* The map is built from the bag: its keys are the parameter ids of the
\* bag and each key has the value of its last occurrence.
BuiltFrom(map, bag) ==
    /\ DOMAIN map = ParmIds(bag)
    /\ \A j \in 2..Len(bag) :
          map[Get(bag[j], "Parameter").i] = ValueOf(bag[LastOccurrence(bag, j)])

\* The bags of the batch that give a parameter map: those with at least
\* one parameter structure whose header does not end the loop over the bag
\* (MQCFT_XR_SUMMARY does).
MapBags ==
    {b \in 1..Len(rb.batch) :
        /\ Len(rb.batch[b]) > 1
        /\ Get(rb.batch[b][1], "Type").i # MQCFT_XR_SUMMARY}

\* C20 (amended): for a batch of n >= 1 bags PCFCommandResponse.parms holds
\* one parameter map for each bag that has at least one parameter structure
\* behind a header other than MQCFT_XR_SUMMARY, in the order of the bags;
\* a bag that carries only a header gives no map.
C20_MapPerBagWithParms ==
    Responded =>
        /\ rb.resp.ok
        /\ Len(rb.resp.val.parms) = Cardinality(MapBags)
        /\ \A b \in MapBags :
              BuiltFrom(rb.resp.val.parms[Cardinality({h \in MapBags : h <= b})],
                        rb.batch[b])

\* A batch of a header-only bag and a bag with one String structure gave
\* a single parameter map, built from the second bag.
C20_Witness ==
    /\ Responded
    /\ Len(rb.src) = 2
    /\ rb.src[1].chunks = <<>> /\ rb.src[1].head = MQCFT_RESPONSE
    /\ rb.src[2].chunks = <<"text">> /\ rb.src[2].head = MQCFT_RESPONSE
    /\ Len(rb.batch) = 2
    /\ Len(rb.resp.val.parms) = 1
    /\ DOMAIN rb.resp.val.parms[1] = {MQCA_Q_NAME}

\* C20 as stated: parms holds exactly n maps and the i-th map is built from
\* the i-th bag, header-only bags included.
C20_Original ==
    Responded =>
        /\ rb.resp.ok
        /\ Len(rb.resp.val.parms) = Len(rb.batch)
        /\ \A b \in 1..Len(rb.batch) :
              BuiltFrom(rb.resp.val.parms[b], rb.batch[b])

----------------------------------------------------------------------------
(* Properties of the aggregate.                                            *)

\* The headers of the bags of the batch in batch order.
RECURSIVE BatchHeaders(_)
BatchHeaders(b) ==
    IF b > Len(rb.batch) THEN <<>> ELSE <<rb.batch[b][1]>> \o BatchHeaders(b + 1)

\* C21: comp_code and reason_code of the aggregate are the CompCode and the
\* Reason of the first header of the batch, the codes the command server
\* gave to the first reply; the headers of later bags are appended to
\* headers and never replace the canonical header, whatever codes they
\* carry.
C21_FirstHeaderCodes ==
    (Responded /\ rb.resp.ok) =>
        /\ rb.resp.val.header = <<rb.batch[1][1]>>
        /\ comp_code(rb.resp.val) = PyInt(ReplyCodes(1).CompCode)
        /\ reason_code(rb.resp.val) = PyInt(ReplyCodes(1).Reason)
        /\ rb.resp.val.headers = BatchHeaders(1)

\* An aggregate was built from two bags whose headers carry different codes.
C21_Witness ==
    /\ Responded
    /\ rb.resp.ok
    /\ Len(rb.batch) = 2
    /\ Len(rb.resp.val.headers) = 2
    /\ Get(rb.resp.val.headers[2], "Reason") # reason_code(rb.resp.val)
    /\ Get(rb.resp.val.headers[2], "CompCode") # comp_code(rb.resp.val)

\* The type tags PCFCommandResponse classifies by (lines 605-619).
ClassificationTypes ==
    HeaderTypes \cup {MQCFT_INTEGER, MQCFT_STRING, MQCFT_INTEGER_LIST,
                      MQCFT_STRING_LIST, MQCFT_BYTE_STRING}

\* A structure of a bag of the batch, the header of the bag included,
\* carries a type tag outside the classification set.
HasUnclassified(batch) ==
    \E b \in 1..Len(batch) : \E j \in 1..Len(batch[b]) :
        Get(batch[b][j], "Type").i \notin ClassificationTypes

----------------------------------------------------------------------------
(* The constructor of PCFCommand.                                          *)
(*                                                                         *)
(* A caller constructs a PCFCommand with keyword arguments of its choice   *)
(* and then packs a request with a text parameter and unpacks a reply with *)
(* a String structure, converting as the object is configured.             *)

\* The keyword arguments of the constructor call: ccsid and encoding left
\* out, None, 0 or another value, ccsid_str left out or given.
CtorArgs ==
    [ccsid     : {Omitted, PyNone, PyInt(0), PyInt(37), PyInt(437)},
     encoding  : {Omitted, PyNone, PyInt(0), PyInt(785), PyInt(MQENC_NATIVE)},
     ccsid_str : {"", "utf-8"},
     convert   : BOOLEAN,
     zos       : BOOLEAN]

InitCtor ==
    /\ args \in CtorArgs
    /\ cmd = PCFCommand(args)
    /\ inv = [i \in Invocations |-> NewFrame]
    /\ cmdq = {}
    /\ replyq = [q \in {DynQueueName[i] : i \in Invocations} |-> <<>>]
    /\ callerDests = CallerQueues
    /\ openDests = callerDests
    /\ replies = 0
    /\ strays = 0
    /\ pk_in = [command |-> MQCMD_NONE, parm_list |-> <<>>]
    /\ pk_out = NotPacked
    /\ st = NoStruct
    /\ rb = NoBag

\* pack_bag(MQCMD_INQUIRE_Q, [(MQCA_Q_NAME, "AB")]) or the same with a dict.
PackText ==
    /\ ~pk_out.done
    /\ \E form \in {"dict", "tuple"} :
         /\ pk_in' = [command |-> MQCMD_INQUIRE_Q,
                      parm_list |-> <<Directive(form, IF form = "dict" THEN 1 ELSE 2,
                                                MQCA_Q_NAME, PyStr(<<65, 66>>))>>]
         /\ pk_out' = [done |-> TRUE,
                       res |-> pack_bag(cmd, MQCMD_INQUIRE_Q, pk_in'.parm_list)]
    /\ UNCHANGED <<cmd, args, execVars, st, rb>>

\* unpack_bag(message_data, convert=self.convert) on a reply with one
\* Integer or one String structure.
UnpackText ==
    /\ rb.src = <<>>
    /\ \E kind \in {"int", "text"} :
          rb' = Unpacked(rb, MQCFT_RESPONSE, <<kind>>, cmd.convert,
                    unpack_bag(cmd, BagBuffer(MQCFT_RESPONSE, 1, <<kind>>,
                                              cmd.encoding),
                               cmd.convert))
    /\ UNCHANGED <<cmd, args, execVars, pk_in, pk_out, st>>

NextCtor ==
    \/ PackText
    \/ UnpackText

SpecCtor == InitCtor /\ [][NextCtor]_vars

\* C23: a PCFCommand constructed with zos=True and with neither ccsid nor
\* encoding given by the caller has ccsid 37, encoding 785 and convert True.
C23_Original ==
    (args.zos /\ args.ccsid = Omitted /\ args.encoding = Omitted) =>
        /\ cmd.ccsid = 37
        /\ cmd.encoding = 785
        /\ cmd.convert

\* unpack_bag was called and its parse loop came to an end: it returned or
\* raised.
ParseEnded == rb.src # <<>> => rb.out # BagErr("nontermination")

\* C25: unpack_bag terminates on every reply buffer: each iteration of its
\* parse loop raises an error or strictly shortens the remaining buffer,
\* also when a StrucLength field is 0, negative or larger than the bytes
\* that remain.
C25_Original == ParseEnded

\* C24: if every receive eventually returns (a message, a no-message
\* timeout or a failure) and finitely many correlated replies are delivered,
\* every execute_command invocation that entered its receive loop
\* eventually finishes, returning an aggregate or raising an error.
C24_Original ==
    \A i \in Invocations :
        (inv[i].pc = "sent") ~> (inv[i].pc \in {"done", "error"})

\* The last buffer given to unpack_bag ends with the StringList structure
\* of two slots, after Integer structures only.
ListBuffer ==
    /\ rb.src # <<>>
    /\ rb.buf.chunks # <<>>
    /\ rb.buf.chunks[Len(rb.buf.chunks)] = "list"
    /\ \A j \in 1..(Len(rb.buf.chunks) - 1) : rb.buf.chunks[j] \in {"int", "int2"}

\* C26: decoding a StringList structure with Count c and StringLength l
\* from a well-formed buffer yields a payload of c * l bytes (all slots),
\* and with conversion enabled the transcoded list passes the length check
\* of unpack_bag.
C26_Original ==
    ListBuffer =>
        /\ rb.out.ok
        /\ ~rb.out.none
        /\ Len(Get(rb.out.val[Len(rb.out.val)], "StringList").s)
              = WireLong("list", 16) * WireLong("list", 20)

\* The StrucLength field of the bytes pack returned, read in the byte order
\* they were packed in.
WireStrucLength ==
    UnpackLong(Slice(st.wire.val, 4, 8), st.enc \in big_endian_encodings)

\* A parameter structure was decoded from a well-formed buffer: the bytes
\* of a packed structure whose StrucLength field is their number.
DecodedWellFormed ==
    /\ Packed
    /\ st.cls # "CFH"
    /\ WireStrucLength = Len(st.wire.val)
    /\ st.back.res.ok

\* C27: after decoding a parameter structure from a well-formed buffer its
\* StrucLength equals the value carried on the wire, the fixed width plus
\* the payload length; a decoded IntegerList has StrucLength 16 + 4 * Count
\* for every Count, Count = 1 included.
C27_Original ==
    DecodedWellFormed =>
        /\ Get(st.back.obj, "StrucLength").i = WireStrucLength
        /\ st.cls = "CFIL" =>
              Get(st.back.obj, "StrucLength").i
                 = MQCFIL_STRUC_LENGTH_FIXED + 4 * Get(st.back.obj, "Count").i

\* C28: when a received reply has an empty body, unpack_bag returns an
\* empty result without raising, and the inspection of that result in the
\* loop of execute_command raises no exception either.
C28_Original ==
    \A i \in Invocations : \A j \in 1..Len(inv[i].received) :
        inv[i].received[j].msg.kind = "empty" =>
            /\ BagOf(inv[i].received[j].msg) = BagNone
            /\ ~(/\ j = Len(inv[i].received)
                 /\ inv[i].pc = "error"
                 /\ inv[i].err = "TypeError")

\* C29: pack is idempotent: a second pack of a structure with the same
\* big-endian encoding succeeds, as the first one did, and returns the same
\* bytes.
PackedTwice == st.again.done /\ st.enc \in big_endian_encodings

C29_Original == PackedTwice => st.again.res.ok /\ st.again.res = st.wire

\* C30: whatever arguments the constructor is called with, the PCFCommand
\* has its code-page name, so that neither pack_bag nor unpack_bag fails for
\* want of the attribute.
C30_Original ==
    /\ cmd.has_ccsid_str
    /\ pk_out.done => (pk_out.res.ok \/ pk_out.res.err # "AttributeError")
    /\ rb.src # <<>> => (rb.out.ok \/ rb.out.err # "AttributeError")

====
